---- MODULE Spec2Model ----
(***************************************************************************)
(* Model of winter0019/asyextract: the App variants (App.tsx, part_000,    *)
(* part_001, part_002) and the two versions of extractCorpsData in         *)
(* services/geminiService.ts.                                              *)
(*                                                                         *)
(* Strings are sequences of one-character strings, so that toUpperCase,    *)
(* toLowerCase, trim, startsWith and includes are computed character by    *)
(* character.  A record carries a field "has": the set of the properties   *)
(* that are present on the JavaScript object (a property that is absent    *)
(* reads as undefined).                                                    *)
(***************************************************************************)
EXTENDS Integers, Sequences, FiniteSets, TLC

\* ------------------------------------------------------------------------
\* Bounds of the model
\* ------------------------------------------------------------------------
\* members in one AI reply (pure extraction specification)
MaxMembers == 2
\* extraction runs the user starts in one behaviour
MaxRuns == 2
\* record edit-handler calls (edit, delete, manual add, clear) in one behaviour
MaxEdits == 1
\* files the user selects in one behaviour
MaxFiles == 1

\* ------------------------------------------------------------------------
\* JavaScript strings
\* ------------------------------------------------------------------------
Lower == <<"a","b","c","d","e","f","g","h","i","j","k","l","m",
           "n","o","p","q","r","s","t","u","v","w","x","y","z">>
Upper == <<"A","B","C","D","E","F","G","H","I","J","K","L","M",
           "N","O","P","Q","R","S","T","U","V","W","X","Y","Z">>

UpperChar(c) == IF \E i \in 1..26 : Lower[i] = c
                THEN Upper[CHOOSE i \in 1..26 : Lower[i] = c] ELSE c
LowerChar(c) == IF \E i \in 1..26 : Upper[i] = c
                THEN Lower[CHOOSE i \in 1..26 : Upper[i] = c] ELSE c

\* String.prototype.toUpperCase / toLowerCase
toUpperCase(s) == [i \in 1..Len(s) |-> UpperChar(s[i])]
toLowerCase(s) == [i \in 1..Len(s) |-> LowerChar(s[i])]

\* String.prototype.startsWith
startsWith(s, p) == Len(p) <= Len(s) /\ SubSeq(s, 1, Len(p)) = p

\* String.prototype.includes: p occurs in s as a contiguous substring
includes(s, p) ==
  \E i \in 0..(Len(s) - Len(p)) : SubSeq(s, i + 1, i + Len(p)) = p

\* String.prototype.trim (the only white space of the model is " ")
RECURSIVE trimStart(_)
trimStart(s) == IF s # <<>> /\ Head(s) = " " THEN trimStart(Tail(s)) ELSE s
RECURSIVE trimEnd(_)
trimEnd(s) == IF s # <<>> /\ s[Len(s)] = " "
              THEN trimEnd(SubSeq(s, 1, Len(s) - 1)) ELSE s
trim(s) == trimEnd(trimStart(s))

\* `s || d` on a possibly absent string property f of object m
StrOr(m, f, d) == IF f \in m.has /\ m[f] # <<>> THEN m[f] ELSE d
\* `m.sn || 0`
SnKey(m) == IF "sn" \in m.has THEN m.sn ELSE 0

\* string literals of the source
sM == <<"M">>
sF == <<"F">>
Unassigned == <<"U","n","a","s","s","i","g","n","e","d">>
UNASSIGNED == <<"U","N","A","S","S","I","G","N","E","D">>
UnassignedNotFound ==
  <<"U","n","a","s","s","i","g","n","e","d"," ","/"," ","N","o","t"," ","F","o","u","n","d">>
Clearance == <<"C","l","e","a","r","a","n","c","e">>
Monday == <<"M","o","n","d","a","y">>

\* JavaScript null / undefined in a slot that otherwise holds a string
Null == <<"null">>

\* messages: the literals of the source and the messages of the errors that
\* the SDK and the runtime raise
MsgGeneric ==
  <<"A","n"," ","u","n","e","x","p","e","c","t","e","d"," ","e","r","r",
    "o","r"," ","o","c","c","u","r","r","e","d"," ","d","u","r","i","n",
    "g"," ","e","x","t","r","a","c","t","i","o","n","."," ","P","l","e",
    "a","s","e"," ","t","r","y"," ","a","g","a","i","n",".">>
MsgAuth ==
  <<"A","u","t","h","e","n","t","i","c","a","t","i","o","n"," ","f","a",
    "i","l","e","d","."," ","T","h","e"," ","A","I"," ","s","e","r","v",
    "i","c","e"," ","a","c","c","e","s","s"," ","i","s"," ","r","e","s",
    "t","r","i","c","t","e","d","."," ","P","l","e","a","s","e"," ","c",
    "h","e","c","k"," ","y","o","u","r"," ","c","o","n","f","i","g","u",
    "r","a","t","i","o","n",".">>
MsgOverload ==
  <<"T","h","e"," ","e","x","t","r","a","c","t","i","o","n"," ","s","e",
    "r","v","i","c","e"," ","i","s"," ","c","u","r","r","e","n","t","l",
    "y"," ","b","u","s","y"," ","h","a","n","d","l","i","n","g"," ","t",
    "o","o"," ","m","a","n","y"," ","r","e","q","u","e","s","t","s",".",
    " ","P","l","e","a","s","e"," ","w","a","i","t"," ","3","0"," ","s",
    "e","c","o","n","d","s"," ","a","n","d"," ","t","r","y"," ","a","g",
    "a","i","n",".">>
MsgNetwork ==
  <<"C","o","n","n","e","c","t","i","o","n"," ","l","o","s","t","."," ",
    "P","l","e","a","s","e"," ","c","h","e","c","k"," ","y","o","u","r",
    " ","i","n","t","e","r","n","e","t"," ","c","o","n","n","e","c","t",
    "i","v","i","t","y"," ","a","n","d"," ","e","n","s","u","r","e"," ",
    "t","h","e"," ","f","i","l","e","s"," ","a","r","e","n","'","t"," ",
    "t","o","o"," ","l","a","r","g","e",".">>
MsgRecognition ==
  <<"N","o"," ","c","o","r","p","s"," ","m","e","m","b","e","r"," ","d",
    "a","t","a"," ","c","o","u","l","d"," ","b","e"," ","i","d","e","n",
    "t","i","f","i","e","d","."," ","T","r","y"," ","u","s","i","n","g",
    " ","h","i","g","h","e","r"," ","q","u","a","l","i","t","y"," ","p",
    "h","o","t","o","s"," ","o","r"," ","s","c","a","n","n","e","d"," ",
    "P","D","F"," ","d","o","c","u","m","e","n","t","s",".">>
MsgFailedToProcess ==
  <<"F","a","i","l","e","d"," ","t","o"," ","p","r","o","c","e","s","s",
    " ","d","o","c","u","m","e","n","t","s","."," ","P","l","e","a","s",
    "e"," ","c","h","e","c","k"," ","y","o","u","r"," ","i","n","t","e",
    "r","n","e","t"," ","c","o","n","n","e","c","t","i","o","n"," ","o",
    "r"," ","t","r","y"," ","a","g","a","i","n",".">>
AUTH_ERROR ==
  <<"A","U","T","H","_","E","R","R","O","R">>
SERVICE_OVERLOAD ==
  <<"S","E","R","V","I","C","E","_","O","V","E","R","L","O","A","D">>
NETWORK_ERROR ==
  <<"N","E","T","W","O","R","K","_","E","R","R","O","R">>
RECOGNITION_ERROR ==
  <<"R","E","C","O","G","N","I","T","I","O","N","_","E","R","R","O","R">>
MsgEmptyContent ==
  <<"A","I"," ","r","e","t","u","r","n","e","d"," ","e","m","p","t","y",
    " ","c","o","n","t","e","n","t">>
MsgSyntaxError ==
  <<"U","n","e","x","p","e","c","t","e","d"," ","e","n","d"," ","o","f",
    " ","J","S","O","N"," ","i","n","p","u","t">>
MsgTypeError ==
  <<"C","a","n","n","o","t"," ","r","e","a","d"," ","p","r","o","p","e",
    "r","t","i","e","s"," ","o","f"," ","u","n","d","e","f","i","n","e",
    "d"," ","(","r","e","a","d","i","n","g"," ","'","m","a","p","'",")">>
MsgApiAuth ==
  <<"4","0","0"," ","A","U","T","H","_","E","R","R","O","R",":"," ","A",
    "P","I"," ","k","e","y"," ","n","o","t"," ","v","a","l","i","d">>
MsgApiBusy ==
  <<"g","o","t"," ","s","t","a","t","u","s",":"," ","4","2","9"," ","S",
    "E","R","V","I","C","E","_","O","V","E","R","L","O","A","D">>

\* the err.message values a rejected extraction can carry
ErrMessages ==
  {AUTH_ERROR, SERVICE_OVERLOAD, NETWORK_ERROR, RECOGNITION_ERROR,
   MsgApiAuth, MsgApiBusy, MsgEmptyContent, MsgSyntaxError, MsgTypeError}

\* ------------------------------------------------------------------------
\* services/geminiService.ts
\* ------------------------------------------------------------------------
\* Array.prototype.sort((a, b) => key(a) - key(b)) is stable: insertion of
\* the indices 1..n, each one behind the indices whose key is not greater
\* InsertIdx that puts an index in front of the indices of equal key
RECURSIVE InsertIdx_Unstable(_, _, _)
InsertIdx_Unstable(k, acc, keys) ==
  IF acc = <<>> THEN <<k>>
  ELSE IF keys[k] <= keys[Head(acc)] THEN <<k>> \o acc
       ELSE <<Head(acc)>> \o InsertIdx_Unstable(k, Tail(acc), keys)

RECURSIVE InsertIdx(_, _, _)
InsertIdx(k, acc, keys) ==
  IF acc = <<>> THEN <<k>>
  ELSE IF keys[k] < keys[Head(acc)] THEN <<k>> \o acc
       ELSE <<Head(acc)>> \o InsertIdx(k, Tail(acc), keys)
RECURSIVE SortIdx(_, _)
SortIdx(n, keys) ==
  IF n = 0 THEN <<>> ELSE InsertIdx(n, SortIdx(n - 1, keys), keys)
sortByKey(s, keys) ==
  LET p == SortIdx(Len(s), keys) IN [i \in 1..Len(s) |-> s[p[i]]]

\* cleanup1 with the gender compared without toUpperCase
cleanup1_CaseSensitiveGender(m) ==
  [m EXCEPT !.has = @ \cup {"gender", "fullName", "companyName"},
            !.gender = IF startsWith(StrOr(m, "gender", sM), sF)
                       THEN sF ELSE sM,
            !.fullName = toUpperCase(StrOr(m, "fullName", <<>>)),
            !.companyName = toUpperCase(StrOr(m, "companyName", Unassigned))]

\* a cleanup that keeps the gender the AI wrote
cleanup1_KeepsGender(m) ==
  [m EXCEPT !.has = @ \cup {"gender", "fullName", "companyName"},
            !.gender = StrOr(m, "gender", sM),
            !.fullName = toUpperCase(StrOr(m, "fullName", <<>>)),
            !.companyName = toUpperCase(StrOr(m, "companyName", Unassigned))]

\* first version, the map callback of lines 85-90
cleanup1(m) ==
  [m EXCEPT !.has = @ \cup {"gender", "fullName", "companyName"},
            !.gender = IF startsWith(toUpperCase(StrOr(m, "gender", sM)), sF)
                       THEN sF ELSE sM,
            !.fullName = toUpperCase(StrOr(m, "fullName", <<>>)),
            !.companyName = toUpperCase(StrOr(m, "companyName", Unassigned))]

\* second version, the map callback of lines 206-217; id is the value of
\* Math.random().toString(36).substr(2, 9)
cleanup2(m, id) ==
  [m EXCEPT !.has = @ \cup {"id", "surname", "firstName", "middleName",
                            "gender", "stateCode", "phone", "companyName"},
            !.id = id,
            !.surname = trim(StrOr(m, "surname", <<>>)),
            !.firstName = trim(StrOr(m, "firstName", <<>>)),
            !.middleName = trim(StrOr(m, "middleName", <<>>)),
            !.gender = IF startsWith(toUpperCase(StrOr(m, "gender", sM)), sF)
                       THEN sF ELSE sM,
            !.stateCode = trim(toUpperCase(StrOr(m, "stateCode", <<>>))),
            !.phone = trim(StrOr(m, "phone", <<>>)),
            !.companyName = trim(StrOr(m, "companyName", <<>>))]

\* metadata object without any property
NoMetadata ==
  [has |-> {}, lga |-> <<>>, batchInfo |-> <<>>, title |-> <<>>,
   datePrinted |-> <<>>]

\* the promise returned by extractCorpsData settles as one of these
Resolved(members, metadata) ==
  [ok |-> TRUE, members |-> members, metadata |-> metadata, err |-> <<>>]
Rejected(message) ==
  [ok |-> FALSE, members |-> <<>>, metadata |-> NoMetadata, err |-> message]

\* A response of ai.models.generateContent:
\*   rejects      the request itself fails with an error of message err
\*   text         "empty" (no text), "invalid" (not JSON) or "json"
\*   hasMembers   the parsed object has a members array
\*   members      that array;  metadata  the parsed metadata object
extractCorpsData1(resp) ==
  IF resp.rejects THEN Rejected(resp.err)
  ELSE IF resp.text = "empty" THEN Rejected(MsgEmptyContent)
  ELSE IF resp.text = "invalid" THEN Rejected(MsgSyntaxError)
  ELSE IF ~resp.hasMembers THEN Rejected(MsgTypeError)
  ELSE LET mapped == [i \in 1..Len(resp.members) |-> cleanup1(resp.members[i])]
       IN Resolved(sortByKey(mapped, [i \in 1..Len(mapped) |-> SnKey(mapped[i])]),
                   resp.metadata)

\* ids[i] is the random id drawn for the i-th member
extractCorpsData2(resp, ids) ==
  IF resp.rejects THEN Rejected(resp.err)
  ELSE IF resp.text # "json" THEN Rejected(MsgSyntaxError)
  ELSE LET ms == IF resp.hasMembers THEN resp.members ELSE <<>>
           mapped == [i \in 1..Len(ms) |-> cleanup2(ms[i], ids[i])]
       IN Resolved(sortByKey(mapped, [i \in 1..Len(mapped) |-> SnKey(mapped[i])]),
                   resp.metadata)

\* ------------------------------------------------------------------------
\* Values the model draws its inputs from
\* ------------------------------------------------------------------------
\* a CorpsMember of types.ts (first service version)
Member1(has, id, sn, stateCode, fullName, gender, phone, companyName) ==
  [has |-> has, id |-> id, sn |-> sn, stateCode |-> stateCode,
   fullName |-> fullName, gender |-> gender, phone |-> phone,
   companyName |-> companyName]

\* a CorpsMember of the second service version
Member2(has, id, sn, stateCode, surname, firstName, middleName, gender, phone, companyName, attendanceType, day) ==
  [has |-> has, id |-> id, sn |-> sn, stateCode |-> stateCode,
   surname |-> surname, firstName |-> firstName, middleName |-> middleName,
   gender |-> gender, phone |-> phone, companyName |-> companyName,
   attendanceDate |-> <<>>, attendanceType |-> attendanceType, day |-> day]

Fields1 == {"id", "sn", "stateCode", "fullName", "gender", "phone", "companyName"}
Fields2 == {"sn", "stateCode", "surname", "firstName", "middleName", "gender",
            "phone", "companyName", "attendanceDate", "attendanceType", "day"}

\* the ids of the model: those the AI writes and those Math.random yields
Ids == {<<"i","1">>, <<"i","2">>}

\* a response that carries a members array
JsonResponse(members, metadata) ==
  [rejects |-> FALSE, err |-> <<>>, text |-> "json", hasMembers |-> TRUE,
   members |-> members, metadata |-> metadata]
\* the responses from which no member list is read
FailingResponses ==
  {[rejects |-> TRUE, err |-> e, text |-> "json", hasMembers |-> FALSE,
    members |-> <<>>, metadata |-> NoMetadata] : e \in ErrMessages}
  \cup
  {[rejects |-> FALSE, err |-> <<>>, text |-> t, hasMembers |-> FALSE,
    members |-> <<>>, metadata |-> NoMetadata] : t \in {"empty", "invalid", "json"}}

\* sequences over S of length at most n
SeqUpTo(S, n) == UNION {[1..k -> S] : k \in 0..n}

\* --- AI replies of the pure extraction specification ---------------------
StateCodeNY == <<"n","y","/","1">>
Phone08 == <<"0","8">>

\* sn: absent, 0, 1 or 2
SnOptions == {[has |-> FALSE, v |-> 0], [has |-> TRUE, v |-> 0],
              [has |-> TRUE, v |-> 1], [has |-> TRUE, v |-> 2]}

\* gender, fullName and companyName as the AI may write them
Profiles1 ==
  {[has |-> {}, id |-> <<"i","1">>, gender |-> <<>>, fullName |-> <<>>,
    companyName |-> <<>>],
   [has |-> {"gender", "fullName", "companyName"}, id |-> <<"i","2">>,
    gender |-> <<>>, fullName |-> <<>>, companyName |-> <<>>],
   [has |-> {"gender", "fullName", "companyName"}, id |-> <<"i","1">>,
    gender |-> <<"f">>, fullName |-> <<"a","n","n">>,
    companyName |-> <<"a","c","m","e">>],
   [has |-> {"gender", "fullName", "companyName"}, id |-> <<"i","2">>,
    gender |-> <<"F","e","m","a","l","e">>, fullName |-> <<"B","o">>,
    companyName |-> <<" ">>],
   [has |-> {"gender", "fullName", "companyName"}, id |-> <<"i","1">>,
    gender |-> <<"M">>, fullName |-> <<"A","N","N">>,
    companyName |-> <<"A","c","m","e">>],
   [has |-> {"gender", "fullName"}, id |-> <<"i","2">>,
    gender |-> <<" ","f">>, fullName |-> <<"z","o","e">>,
    companyName |-> <<>>]}

RawMembers1 ==
  {Member1({"id", "stateCode", "phone"} \cup p.has
             \cup (IF o.has THEN {"sn"} ELSE {}),
           p.id, o.v, StateCodeNY, p.fullName, p.gender, Phone08,
           p.companyName) : o \in SnOptions, p \in Profiles1}

Profiles2 ==
  {[has |-> {}, gender |-> <<>>, surname |-> <<>>, stateCode |-> <<>>,
    companyName |-> <<>>],
   [has |-> {"gender", "surname", "stateCode", "companyName"},
    gender |-> <<"f">>, surname |-> <<" ","D","o","e"," ">>,
    stateCode |-> <<"n","y","/","1"," ">>, companyName |-> <<" ">>],
   [has |-> {"gender", "surname", "stateCode", "companyName"},
    gender |-> <<"m","a","l","e">>, surname |-> <<"R","a","y">>,
    stateCode |-> <<"K","T","/","2">>,
    companyName |-> <<"A","c","m","e"," ">>],
   [has |-> {"gender", "surname", "stateCode"},
    gender |-> <<"F">>, surname |-> <<"a","n","n">>,
    stateCode |-> <<" ","k","t">>, companyName |-> <<>>]}

RawMembers2 ==
  {Member2({"firstName"} \cup p.has \cup (IF o.has THEN {"sn"} ELSE {}),
           <<>>, o.v, p.stateCode, p.surname, <<"J","o">>, <<>>, p.gender,
           <<>>, p.companyName, <<>>, <<>>) : o \in SnOptions, p \in Profiles2}

Responses1 ==
  FailingResponses
    \cup {JsonResponse(ms, NoMetadata) : ms \in SeqUpTo(RawMembers1, MaxMembers)}
Responses2 ==
  FailingResponses
    \cup {JsonResponse(ms, NoMetadata) : ms \in SeqUpTo(RawMembers2, MaxMembers)}

\* --- inputs of the application specification -----------------------------
RawAnn == Member1(Fields1, <<"i","1">>, 2, StateCodeNY, <<"a","n","n">>,
                  <<"f">>, Phone08, <<"A","b">>)
RawBo == Member1(Fields1 \ {"companyName"}, <<"i","2">>, 1, <<"k","t">>,
                 <<"B","o">>, <<"M">>, Phone08, <<>>)
RawAl == Member1(Fields1 \ {"gender", "sn"}, <<"i","1">>, 0, <<"k","t">>,
                 <<"a","l">>, <<>>, Phone08, <<"a","b">>)
AppResponses1 ==
  {r \in FailingResponses :
     \/ r.err \in {AUTH_ERROR, SERVICE_OVERLOAD, NETWORK_ERROR,
                   RECOGNITION_ERROR, MsgApiAuth}
     \/ r.text = "empty"}
    \cup {JsonResponse(ms, NoMetadata) :
            ms \in {<<>>, <<RawAnn, RawBo>>, <<RawAnn, RawAl>>}}

RawDoe == Member2(Fields2 \ {"middleName", "attendanceDate", "attendanceType", "day"},
                  <<>>, 2, StateCodeNY, <<" ","D","o","e">>, <<"J","o">>,
                  <<>>, <<"f">>, Phone08, <<"A","b"," ">>, <<>>, <<>>)
RawRay == Member2({"sn", "stateCode", "surname", "firstName", "gender", "day"},
                  <<>>, 1, <<"k","t">>, <<"R","a","y">>, <<"J","o">>,
                  <<>>, <<"m">>, <<>>, <<>>, <<>>, <<"F","r","i">>)
ExamMetadata ==
  [has |-> {"title"}, lga |-> <<>>, batchInfo |-> <<>>,
   title |-> <<"E","x","a","m">>, datePrinted |-> <<>>]
AppResponses2 ==
  {r \in FailingResponses : r.err = NETWORK_ERROR \/ r.text = "invalid"}
    \cup {JsonResponse(<<>>, NoMetadata),
          JsonResponse(<<RawDoe, RawRay>>, ExamMetadata)}

\* what the user types into an input of a table row or of the add form
EditValues == {<<>>, <<"A","b">>}
\* what the user types into the search box
SearchTerms == {<<>>, <<"a","B">>}

\* browser File objects: name, type, the content read as text, and the
\* base64 encoding of the content
sTextCsv == <<"t","e","x","t","/","c","s","v">>
sTextSlash == <<"t","e","x","t","/">>
sDotCsv == <<".","c","s","v">>
sAppJson == <<"a","p","p","l","i","c","a","t","i","o","n","/","j","s","o","n">>
sOctetStream ==
  <<"a","p","p","l","i","c","a","t","i","o","n","/","o","c","t","e","t",
    "-","s","t","r","e","a","m">>
sDataColon == <<"d","a","t","a",":">>
sBase64Comma == <<";","b","a","s","e","6","4",",">>
sImagePng == <<"i","m","a","g","e","/","p","n","g">>

FileCsv == [name |-> <<"a",".","c","s","v">>, type |-> sTextCsv,
            text |-> <<"1",",","A">>, b64 |-> <<"M","S","x","B">>]
FilePng == [name |-> <<"b",".","p","n","g">>, type |-> sImagePng,
            text |-> <<"P">>, b64 |-> <<"U","A","=","=">>]
Files == {FileCsv, FilePng}

\* String.prototype.endsWith
endsWith(s, p) ==
  Len(p) <= Len(s) /\ SubSeq(s, Len(s) - Len(p) + 1, Len(s)) = p

\* what FileReader hands to onload
readAsText(file) == file.text
readAsDataURL(file) == sDataColon \o file.type \o sBase64Comma \o file.b64

Variants == {"App", "P0a", "P1", "P2"}

\* the branch of handleFileUpload that picks the reader
ReadsAsText(v, file) ==
  CASE v = "App" -> file.type = sTextCsv \/ endsWith(file.name, sDotCsv)
    [] v = "P0a" -> \/ startsWith(file.type, sTextSlash)
                    \/ file.type = sAppJson
                    \/ endsWith(file.name, sDotCsv)
    [] OTHER -> startsWith(file.type, sTextSlash) \/ endsWith(file.name, sDotCsv)

\* the FileData object that reader.onload appends
MakeFileData(v, file) ==
  [name |-> file.name,
   mimeType |-> IF file.type # <<>> THEN file.type
                ELSE IF v = "App" /\ endsWith(file.name, sDotCsv) THEN sTextCsv
                ELSE sOctetStream,
   data |-> IF ReadsAsText(v, file) THEN readAsText(file)
            ELSE readAsDataURL(file)]

\* ------------------------------------------------------------------------
\* State
\* ------------------------------------------------------------------------
VARIABLES
  variant,          \* which App file runs: App.tsx, part_000 (first App),
                    \* part_001, part_002 (= the second App of part_000)
  isProcessing, processingStep, data, metadata, error, selectedGroup,
                    \* the fields of the AppState object `state`
  uploadedFiles,    \* the staging list
  reading,          \* FileReaders that have not fired onload yet
  searchTerm, ppaSearch,
  editableData, editableMetadata,   \* the working copy of part_002
  runs,             \* one entry per invocation of processFiles/processData
  nSelected, nEdits,  \* how many files were selected, how many edits made
  xcall,            \* the call of the pure extraction specification
  mode,             \* part_002: landing, plain or official
  showGSM, showPPA, \* part_002: the column toggles of the official mode
  doc,              \* the document the last export click handed to the browser
  viewMode,         \* part_000, part_001: table, report or analytics
  sizeSorted        \* the analytics view has sorted the memoized list of
                    \* groups in place since the memo was last computed

vars == <<variant, isProcessing, processingStep, data, metadata, error,
          selectedGroup, uploadedFiles, reading, searchTerm, ppaSearch,
          editableData, editableMetadata, runs, nSelected, nEdits, xcall,
          mode, showGSM, showPPA, doc, viewMode, sizeSorted>>

stateVars == <<isProcessing, processingStep, data, metadata, error, selectedGroup>>
editVars == <<editableData, editableMetadata>>
fileVars == <<uploadedFiles, reading, nSelected>>
viewVars == <<searchTerm, ppaSearch>>
docVars == <<mode, showGSM, showPPA, doc>>
reportVars == <<viewMode, sizeSorted>>

\* ------------------------------------------------------------------------
\* Derived values (useMemo)
\* ------------------------------------------------------------------------
\* a grouping key that ignores letter case
GroupKey_IgnoreCase(v, m) ==
  IF v = "App" THEN toUpperCase(StrOr(m, "companyName", UnassignedNotFound))
  ELSE toUpperCase(m.companyName)

\* a grouping key without the placeholder of App.tsx
GroupKey_NoPlaceholder(v, m) == m.companyName

\* the grouping key: App.tsx line 148 uses a placeholder, part_000 and
\* part_001 use companyName as it is
GroupKey(v, m) ==
  IF v = "App" THEN StrOr(m, "companyName", UnassignedNotFound)
  ELSE m.companyName

\* the single pass that builds the key -> list mapping, in insertion order
RECURSIVE GroupInto(_, _, _)
GroupInto(v, list, acc) ==
  IF list = <<>> THEN acc
  ELSE LET m == Head(list)
           k == GroupKey(v, m)
       IN IF \E i \in 1..Len(acc) : acc[i].key = k
          THEN LET i == CHOOSE i \in 1..Len(acc) : acc[i].key = k
               IN GroupInto(v, Tail(list),
                            [acc EXCEPT ![i].members = Append(@, m)])
          ELSE GroupInto(v, Tail(list),
                         Append(acc, [key |-> k, members |-> <<m>>]))

\* String.prototype.localeCompare: letters compare without case first, a
\* lower-case letter sorts before its upper-case letter on a tie
PrimaryRank(c) ==
  IF \E i \in 1..26 : Lower[i] = LowerChar(c)
  THEN 100 + (CHOOSE i \in 1..26 : Lower[i] = LowerChar(c))
  ELSE IF c = " " THEN 1 ELSE IF c = "/" THEN 2 ELSE 50
CaseRank(c) == IF \E i \in 1..26 : Upper[i] = c THEN 1 ELSE 0
RECURSIVE SeqLess(_, _)
SeqLess(a, b) ==
  IF b = <<>> THEN FALSE
  ELSE IF a = <<>> THEN TRUE
  ELSE IF Head(a) # Head(b) THEN Head(a) < Head(b)
  ELSE SeqLess(Tail(a), Tail(b))
localeLess(a, b) ==
  LET pa == [i \in 1..Len(a) |-> PrimaryRank(a[i])]
      pb == [i \in 1..Len(b) |-> PrimaryRank(b[i])]
  IN IF pa # pb THEN SeqLess(pa, pb)
     ELSE SeqLess([i \in 1..Len(a) |-> CaseRank(a[i])],
                  [i \in 1..Len(b) |-> CaseRank(b[i])])

\* App.tsx groups: entries sorted by descending size
groups ==
  LET es == GroupInto("App", data, <<>>)
  IN sortByKey(es, [i \in 1..Len(es) |-> 0 - Len(es[i].members)])

\* entries.sort((a, b) => a[0].localeCompare(b[0]))
SortByName(es) ==
  sortByKey(es, [i \in 1..Len(es) |->
                   Cardinality({j \in 1..Len(es) : localeLess(es[j].key, es[i].key)})])

\* a search predicate that compares letter case
Matches1_CaseSensitive(m, term) ==
  \/ includes(m.fullName, term)
  \/ includes(m.stateCode, term)
  \/ includes(m.companyName, term)

\* the search predicate of App.tsx, part_000 (first App) and part_001
Matches1(m, term) ==
  \/ includes(toLowerCase(m.fullName), toLowerCase(term))
  \/ includes(toLowerCase(m.stateCode), toLowerCase(term))
  \/ includes(toLowerCase(m.companyName), toLowerCase(term))

\* the search predicate of part_002
Matches2(m, term, ppa) ==
  LET searchStr == toLowerCase(m.surname \o <<" ">> \o m.firstName \o <<" ">>
                               \o m.middleName \o <<" ">> \o m.stateCode)
  IN /\ includes(searchStr, toLowerCase(term))
     /\ \/ ppa = <<>>
        \/ includes(toLowerCase(m.companyName), toLowerCase(ppa))

\* Array.prototype.filter
RECURSIVE Filter(_, _)
Filter(list, keep) ==
  IF list = <<>> THEN <<>>
  ELSE IF keep[Head(list)] THEN <<Head(list)>> \o Filter(Tail(list), keep)
       ELSE Filter(Tail(list), keep)
Range(list) == {list[i] : i \in 1..Len(list)}

\* App.tsx filteredMembers
baseList ==
  IF selectedGroup # Null /\ selectedGroup # <<>>
  THEN IF \E i \in 1..Len(groups) : groups[i].key = selectedGroup
       THEN groups[CHOOSE i \in 1..Len(groups) : groups[i].key = selectedGroup].members
       ELSE <<>>
  ELSE data
filteredMembers ==
  Filter(baseList, [m \in Range(baseList) |-> Matches1(m, searchTerm)])

\* filteredData of part_000 (first App) and part_001, and of part_002
filteredData ==
  IF variant = "P2"
  THEN Filter(editableData,
              [m \in Range(editableData) |-> Matches2(m, searchTerm, ppaSearch)])
  ELSE Filter(data, [m \in Range(data) |-> Matches1(m, searchTerm)])

\* part_000 ppaGroups / sortedPPAs and part_001 filteredSortedPPAs
ppaGroups == GroupInto("P0a", data, <<>>)
sortedPPAs == SortByName(ppaGroups)
filteredSortedPPAs == SortByName(GroupInto("P1", filteredData, <<>>))

\* ------------------------------------------------------------------------
\* Initial state (useState)
\* ------------------------------------------------------------------------
sManiLga ==
  <<"M","a","n","i"," ","L","o","c","a","l"," ","G","o","v","e","r","n",
    "m","e","n","t">>
sBatchB ==
  <<"B","a","t","c","h"," ","B"," ","S","t","r","e","a","m"," ","1"," ",
    "a","n","d"," ","2",","," ","D","e","c","e","m","b","e","r"," ","2",
    "0","2","5">>
sMonthlyClearance ==
  <<"M","o","n","t","h","l","y"," ","C","l","e","a","r","a","n","c","e">>
sDec22 ==
  <<"D","e","c","e","m","b","e","r"," ","2","2",","," ","2","0","2","5">>
\* state.metadata of part_002, lines 21-26
InitialMetadata ==
  [has |-> {"lga", "batchInfo", "title", "datePrinted"}, lga |-> sManiLga,
   batchInfo |-> sBatchB, title |-> sMonthlyClearance, datePrinted |-> sDec22]

NoResult == Rejected(<<>>)
NoCall == [svc |-> 0, resp |-> JsonResponse(<<>>, NoMetadata), ids |-> <<>>,
           settled |-> FALSE, result |-> NoResult]

\* no export button was clicked yet
NoDoc == [kind |-> "none", produced |-> FALSE, content |-> <<>>,
          head |-> <<>>, body |-> <<>>]

AppInit ==
  /\ isProcessing = FALSE
  /\ processingStep = "idle"
  /\ data = <<>>
  /\ metadata = IF variant = "P2" THEN InitialMetadata ELSE NoMetadata
  /\ error = Null
  /\ selectedGroup = Null
  /\ uploadedFiles = <<>>
  /\ reading = <<>>
  /\ searchTerm = <<>>
  /\ ppaSearch = <<>>
  /\ editableData = <<>>
  /\ editableMetadata = metadata
  /\ runs = <<>>
  /\ nSelected = 0
  /\ nEdits = 0
  /\ mode = IF variant = "P2" THEN "landing" ELSE "none"
  /\ showGSM = TRUE
  /\ showPPA = TRUE
  /\ doc = NoDoc
  /\ viewMode = "table"
  /\ sizeSorted = FALSE

Init ==
  /\ variant \in Variants
  /\ AppInit
  /\ xcall = NoCall

\* ------------------------------------------------------------------------
\* part_002: the landing page and the two modes
\* ------------------------------------------------------------------------
\* part_002 line 187: in mode landing only the landing page is rendered
Rendered == variant = "P2" => mode # "landing"

\* the two buttons of the landing page and the back button of the header
setMode(m) ==
  /\ variant = "P2"
  /\ IF mode = "landing" THEN m \in {"plain", "official"} ELSE m = "landing"
  /\ mode' = m
  /\ UNCHANGED <<variant, stateVars, fileVars, viewVars, editVars, runs,
                 nSelected, nEdits, xcall, showGSM, showPPA, doc,
                 reportVars>>

\* ------------------------------------------------------------------------
\* File staging
\* ------------------------------------------------------------------------
\* the upload input is rendered: always in App.tsx and part_002, on the
\* upload panel in part_000 and part_001
UploadPanelShown ==
  variant \in {"App", "P2"} \/ (data = <<>> /\ ~isProcessing)

\* the FileReader objects that files.forEach creates, in selection order;
\* seq tells the File objects apart: it is the position of the file among
\* all the files selected so far
Readers(fs, n) == [k \in 1..Len(fs) |-> [file |-> fs[k], seq |-> n + k]]

\* handleFileUpload: one FileReader per selected file
handleFileUpload(fs) ==
  /\ Rendered
  /\ UploadPanelShown
  /\ fs # <<>>
  /\ reading' = reading \o Readers(fs, nSelected)
  /\ nSelected' = nSelected + Len(fs)
  /\ UNCHANGED <<variant, stateVars, uploadedFiles, viewVars, editVars, runs,
                 nEdits, xcall,
                 docVars, reportVars>>

RemoveAt(list, i) == SubSeq(list, 1, i - 1) \o SubSeq(list, i + 1, Len(list))

\* a reader.onload that puts the file in front of the staged ones
readerOnload_Prepends(i) ==
  /\ i \in 1..Len(reading)
  /\ uploadedFiles' =
       <<MakeFileData(variant, reading[i].file)>> \o uploadedFiles
  /\ reading' = RemoveAt(reading, i)
  /\ UNCHANGED <<variant, stateVars, viewVars, editVars, runs, nSelected,
                 nEdits, xcall,
                 docVars, reportVars>>

\* reader.onload of the i-th pending reader
readerOnload(i) ==
  /\ i \in 1..Len(reading)
  /\ uploadedFiles' =
       Append(uploadedFiles, MakeFileData(variant, reading[i].file))
  /\ reading' = RemoveAt(reading, i)
  /\ UNCHANGED <<variant, stateVars, viewVars, editVars, runs, nSelected,
                 nEdits, xcall,
                 docVars, reportVars>>

\* the trash button of a staged file (App.tsx, part_000 removeFile, part_001)
removeFile(i) ==
  /\ Rendered
  /\ variant \in {"App", "P0a", "P1"}
  /\ UploadPanelShown
  /\ i \in 1..Len(uploadedFiles)
  /\ uploadedFiles' = RemoveAt(uploadedFiles, i)
  /\ UNCHANGED <<variant, stateVars, reading, viewVars, editVars, runs,
                 nSelected, nEdits, xcall,
                 docVars, reportVars>>

\* "Clear Queue" of App.tsx, "Clear All" of part_000
clearQueue ==
  /\ Rendered
  /\ variant \in {"App", "P0a"}
  /\ UploadPanelShown
  /\ uploadedFiles # <<>>
  /\ uploadedFiles' = <<>>
  /\ UNCHANGED <<variant, stateVars, reading, viewVars, editVars, runs,
                 nSelected, nEdits, xcall,
                 docVars, reportVars>>

\* ------------------------------------------------------------------------
\* Extraction runs: processFiles (App.tsx) and processData (the others)
\* ------------------------------------------------------------------------
\* userFriendlyError that looks for the code inside the message
userFriendlyError_Substring(message) ==
  CASE includes(message, AUTH_ERROR) -> MsgAuth
    [] includes(message, SERVICE_OVERLOAD) -> MsgOverload
    [] includes(message, NETWORK_ERROR) -> MsgNetwork
    [] includes(message, RECOGNITION_ERROR) -> MsgRecognition
    [] OTHER -> MsgGeneric

\* the switch of the catch clause of App.tsx, lines 85-100
userFriendlyError(message) ==
  CASE message = AUTH_ERROR -> MsgAuth
    [] message = SERVICE_OVERLOAD -> MsgOverload
    [] message = NETWORK_ERROR -> MsgNetwork
    [] message = RECOGNITION_ERROR -> MsgRecognition
    [] OTHER -> MsgGeneric

\* the value the catch clause stores in state.error
CaughtError(v, message) ==
  CASE v = "App" -> userFriendlyError(message)
    [] v = "P0a" -> IF message # <<>> THEN message ELSE MsgFailedToProcess
    [] OTHER -> message

\* the button that starts a run can be pressed
StartEnabled ==
  /\ uploadedFiles # <<>>
  /\ ~isProcessing
  /\ variant \in {"P0a", "P1"} => data = <<>>

Run(pc, files, data0, calls) ==
  [pc |-> pc, files |-> files, data0 |-> data0, calls |-> calls,
   result |-> NoResult, err |-> <<>>]
\* a run that is over keeps its number of calls and what the call settled with
Over(run, pc, result) ==
  [pc |-> pc, files |-> <<>>, data0 |-> <<>>, calls |-> run.calls,
   result |-> result, err |-> result.err]

\* processFiles / processData up to the first await.  App.tsx waits for the
\* scanning timer; the others set the step and call extractCorpsData at once
processFiles ==
  /\ Rendered
  /\ StartEnabled
  /\ Len(runs) < MaxRuns
  /\ isProcessing' = TRUE
  /\ error' = Null
  /\ processingStep' = CASE variant = "App" -> "scanning"
                         [] variant = "P2" -> processingStep
                         [] OTHER -> "extracting"
  /\ runs' = Append(runs, IF variant = "App"
                          THEN Run("scanning", uploadedFiles, data, 0)
                          ELSE Run("extracting", uploadedFiles, data, 1))
  /\ UNCHANGED <<variant, data, metadata, selectedGroup, fileVars, viewVars,
                 editVars, nEdits, xcall,
                 docVars, reportVars>>

\* a scanning timer that issues the call without announcing the step
scanningDone_KeepsStep(r) ==
  /\ variant = "App"
  /\ r \in 1..Len(runs)
  /\ runs[r].pc = "scanning"
  /\ runs' = [runs EXCEPT ![r].pc = "extracting", ![r].calls = @ + 1]
  /\ UNCHANGED <<variant, isProcessing, processingStep, data, metadata, error,
                 selectedGroup, fileVars, viewVars, editVars, nEdits, xcall,
                 docVars, reportVars>>

\* App.tsx lines 64-67: the scanning timer fires, the call is issued
scanningDone(r) ==
  /\ variant = "App"
  /\ r \in 1..Len(runs)
  /\ runs[r].pc = "scanning"
  /\ processingStep' = "extracting"
  /\ runs' = [runs EXCEPT ![r].pc = "extracting", ![r].calls = @ + 1]
  /\ UNCHANGED <<variant, isProcessing, data, metadata, error, selectedGroup,
                 fileVars, viewVars, editVars, nEdits, xcall,
                 docVars, reportVars>>

\* { ...prev.metadata, ...result.metadata }
MergeMetadata(prev, new) ==
  [has |-> prev.has \cup new.has,
   lga |-> IF "lga" \in new.has THEN new.lga ELSE prev.lga,
   batchInfo |-> IF "batchInfo" \in new.has THEN new.batchInfo ELSE prev.batchInfo,
   title |-> IF "title" \in new.has THEN new.title ELSE prev.title,
   datePrinted |-> IF "datePrinted" \in new.has THEN new.datePrinted
                   ELSE prev.datePrinted]

ExtractResult(resp, ids) ==
  IF variant = "P2" THEN extractCorpsData2(resp, ids) ELSE extractCorpsData1(resp)

\* Catch that also empties the record list
Catch_ClearsData(r, message) ==
  /\ error' = CaughtError(variant, message)
  /\ isProcessing' = FALSE
  /\ processingStep' = IF variant = "P2" THEN processingStep ELSE "idle"
  /\ runs' = [runs EXCEPT ![r] = Over(@, "failed", Rejected(message))]
  /\ data' = <<>>
  /\ UNCHANGED <<metadata, selectedGroup, uploadedFiles, editVars>>

\* Catch that calls extractCorpsData once more before it gives up
Catch_Retries(r, message) ==
  /\ error' = CaughtError(variant, message)
  /\ isProcessing' = FALSE
  /\ processingStep' = IF variant = "P2" THEN processingStep ELSE "idle"
  /\ runs' = [runs EXCEPT ![r] = [Over(@, "failed", Rejected(message))
                                    EXCEPT !.calls = @ + 1]]
  /\ UNCHANGED <<data, metadata, selectedGroup, uploadedFiles, editVars>>

\* Catch that forgets to reset isProcessing
Catch_KeepsProcessing(r, message) ==
  /\ error' = CaughtError(variant, message)
  /\ processingStep' = IF variant = "P2" THEN processingStep ELSE "idle"
  /\ runs' = [runs EXCEPT ![r] = Over(@, "failed", Rejected(message))]
  /\ UNCHANGED <<isProcessing, data, metadata, selectedGroup, uploadedFiles,
                 editVars>>

\* Catch that also puts the working copy of part_002 back to state.data
Catch_ResetsCopy(r, message) ==
  /\ error' = CaughtError(variant, message)
  /\ isProcessing' = FALSE
  /\ processingStep' = IF variant = "P2" THEN processingStep ELSE "idle"
  /\ runs' = [runs EXCEPT ![r] = Over(@, "failed", Rejected(message))]
  /\ editableData' = data
  /\ editableMetadata' = metadata
  /\ UNCHANGED <<data, metadata, selectedGroup, uploadedFiles>>

\* the catch clause
Catch(r, message) ==
  /\ error' = CaughtError(variant, message)
  /\ isProcessing' = FALSE
  /\ processingStep' = IF variant = "P2" THEN processingStep ELSE "idle"
  /\ runs' = [runs EXCEPT ![r] = Over(@, "failed", Rejected(message))]
  /\ UNCHANGED <<data, metadata, selectedGroup, uploadedFiles, editVars>>

\* Then that appends the extracted members to the list
Then_Merges(r, result) ==
  CASE variant = "App" ->
         /\ processingStep' = "validating"
         /\ runs' = [runs EXCEPT ![r].pc = "validating", ![r].result = result]
         /\ UNCHANGED <<isProcessing, data, metadata, error, selectedGroup,
                        uploadedFiles, editVars>>
    [] variant \in {"P0a", "P1"} ->
         /\ data' = data \o result.members
         /\ isProcessing' = FALSE
         /\ processingStep' = "idle"
         /\ uploadedFiles' = <<>>
         /\ runs' = [runs EXCEPT ![r] = Over(@, "done", result)]
         /\ UNCHANGED <<metadata, error, selectedGroup, editVars>>
    [] OTHER ->
         /\ data' = data \o result.members
         /\ metadata' = MergeMetadata(metadata, result.metadata)
         /\ isProcessing' = FALSE
         /\ uploadedFiles' = <<>>
         /\ editableData' = editableData \o result.members
         /\ editableMetadata' = metadata'
         /\ runs' = [runs EXCEPT ![r] = Over(@, "done", result)]
         /\ UNCHANGED <<processingStep, error, selectedGroup>>

\* the statements behind `await extractCorpsData(...)` when it resolves
Then(r, result) ==
  CASE variant = "App" ->
         /\ processingStep' = "validating"
         /\ runs' = [runs EXCEPT ![r].pc = "validating", ![r].result = result]
         /\ UNCHANGED <<isProcessing, data, metadata, error, selectedGroup,
                        uploadedFiles, editVars>>
    [] variant \in {"P0a", "P1"} ->
         /\ data' = result.members
         /\ isProcessing' = FALSE
         /\ processingStep' = "idle"
         /\ uploadedFiles' = <<>>
         /\ runs' = [runs EXCEPT ![r] = Over(@, "done", result)]
         /\ UNCHANGED <<metadata, error, selectedGroup, editVars>>
    [] OTHER ->
         /\ data' = result.members
         /\ metadata' = MergeMetadata(metadata, result.metadata)
         /\ isProcessing' = FALSE
         /\ uploadedFiles' = <<>>
         \* useEffect of lines 41-44: state.data and state.metadata are new
         \* objects, the working copy is overwritten
         /\ editableData' = data'
         /\ editableMetadata' = metadata'
         /\ runs' = [runs EXCEPT ![r] = Over(@, "done", result)]
         /\ UNCHANGED <<processingStep, error, selectedGroup>>

\* the analytics view of part_000 and part_001 is on screen; its render
\* sorts the memoized list of groups in place, by descending size
AnalyticsShown(vm, list, busy) ==
  variant \in {"P0a", "P1"} /\ vm = "analytics" /\ list # <<>> /\ ~busy

\* the render that follows a handler: a memo whose dependencies are new is
\* computed again, in name order; then the analytics view, if it is on
\* screen, sorts the list
renderSorts(recomputed) ==
  sizeSorted' = (\/ ~recomputed /\ sizeSorted
                 \/ AnalyticsShown(viewMode', data', isProcessing'))

\* the promise of run r settles with the response resp of the AI service
settle(r, resp, ids) ==
  /\ r \in 1..Len(runs)
  /\ runs[r].pc = "extracting"
  /\ LET result == ExtractResult(resp, ids)
     IN IF result.ok THEN Then(r, result) ELSE Catch(r, result.err)
  /\ UNCHANGED <<variant, reading, nSelected, viewVars, nEdits, xcall,
                 docVars, viewMode>>
  \* a resolved call stores a new data array
  /\ renderSorts(ExtractResult(resp, ids).ok)

\* App.tsx lines 70-79: the validating timer fires, the result is applied
validatingDone(r) ==
  /\ variant = "App"
  /\ r \in 1..Len(runs)
  /\ runs[r].pc = "validating"
  /\ data' = runs[r].result.members
  /\ isProcessing' = FALSE
  /\ processingStep' = "idle"
  /\ selectedGroup' = Null
  /\ runs' = [runs EXCEPT ![r] = Over(@, "done", runs[r].result)]
  /\ UNCHANGED <<variant, metadata, error, fileVars, viewVars, editVars,
                 nEdits, xcall,
                 docVars, reportVars>>

\* ------------------------------------------------------------------------
\* Other handlers of the state object
\* ------------------------------------------------------------------------
\* dismissError / the X button of the error banner
dismissError ==
  /\ Rendered
  /\ error # Null /\ error # <<>>
  /\ error' = Null
  /\ UNCHANGED <<variant, isProcessing, processingStep, data, metadata,
                 selectedGroup, fileVars, viewVars, editVars, runs, nEdits, xcall,
                 docVars, reportVars>>

\* the results view of part_000 and part_001 (third branch of the ternary)
ResultsShown == data # <<>> /\ ~isProcessing

setSearchTerm(t) ==
  /\ Rendered
  /\ variant \in {"P0a", "P1"} => ResultsShown
  /\ t # searchTerm
  /\ searchTerm' = t
  /\ UNCHANGED <<variant, stateVars, fileVars, ppaSearch, editVars, runs,
                 nEdits, xcall,
                 docVars, viewMode>>
  \* filteredSortedPPAs of part_001 depends on the search, sortedPPAs of
  \* part_000 does not
  /\ renderSorts(variant = "P1")

setPpaSearch(t) ==
  /\ Rendered
  /\ variant = "P2"
  /\ t # ppaSearch
  /\ ppaSearch' = t
  /\ UNCHANGED <<variant, stateVars, fileVars, searchTerm, editVars, runs,
                 nEdits, xcall,
                 docVars, reportVars>>

\* App.tsx lines 321-335: "all" or one of the listed groups
selectGroup(g) ==
  /\ variant = "App"
  /\ groups # <<>>
  /\ g = Null \/ \E i \in 1..Len(groups) : groups[i].key = g
  /\ g # selectedGroup
  /\ selectedGroup' = g
  /\ UNCHANGED <<variant, isProcessing, processingStep, data, metadata, error,
                 fileVars, viewVars, editVars, runs, nEdits, xcall,
                 docVars, reportVars>>

\* part_000 "clear all extracted data", confirmed
clearData ==
  /\ variant = "P0a"
  /\ ResultsShown
  /\ data' = <<>>
  /\ UNCHANGED <<variant, isProcessing, processingStep, metadata, error,
                 selectedGroup, fileVars, viewVars, editVars, runs, nEdits, xcall,
                 docVars, viewMode>>
  /\ renderSorts(TRUE)

\* part_001 "Cancel Extraction"
cancelExtraction ==
  /\ variant = "P1"
  /\ isProcessing
  /\ isProcessing' = FALSE
  /\ UNCHANGED <<variant, processingStep, data, metadata, error, selectedGroup,
                 fileVars, viewVars, editVars, runs, nEdits, xcall,
                 docVars, viewMode>>
  /\ renderSorts(FALSE)

\* ------------------------------------------------------------------------
\* Record edit handlers
\* ------------------------------------------------------------------------
\* an edit that stores the value in upper case
SetField_Uppercase(list, id, field, value) ==
  [i \in 1..Len(list) |->
     IF list[i].id = id
     THEN [list[i] EXCEPT !.has = @ \cup {field}, ![field] = toUpperCase(value)]
     ELSE list[i]]

\* list.map(m => m.id === id ? { ...m, [field]: value } : m)
SetField(list, id, field, value) ==
  [i \in 1..Len(list) |->
     IF list[i].id = id
     THEN [list[i] EXCEPT !.has = @ \cup {field}, ![field] = value]
     ELSE list[i]]
\* list.filter(m => m.id !== id)
WithoutId(list, id) == Filter(list, [m \in Range(list) |-> m.id # id])

\* App.tsx handleEditChange, called from an input of a table row
handleEditChange(id, field, value) ==
  /\ variant = "App"
  /\ nEdits < MaxEdits
  /\ \E i \in 1..Len(filteredMembers) :
       /\ filteredMembers[i].id = id
       /\ field = "gender" =>
            value = (IF filteredMembers[i].gender = sM THEN sF ELSE sM)
  /\ data' = SetField(data, id, field, value)
  /\ nEdits' = nEdits + 1
  /\ UNCHANGED <<variant, isProcessing, processingStep, metadata, error,
                 selectedGroup, fileVars, viewVars, editVars, runs, xcall,
                 docVars, reportVars>>

\* App.tsx deleteMember
deleteMember(id) ==
  /\ variant = "App"
  /\ nEdits < MaxEdits
  /\ \E i \in 1..Len(filteredMembers) : filteredMembers[i].id = id
  /\ data' = WithoutId(data, id)
  /\ nEdits' = nEdits + 1
  /\ UNCHANGED <<variant, isProcessing, processingStep, metadata, error,
                 selectedGroup, fileVars, viewVars, editVars, runs, xcall,
                 docVars, reportVars>>

\* App.tsx addNewMember; id is the value of Math.random().toString(36)...
addNewMemberApp(id, form) ==
  /\ variant = "App"
  /\ nEdits < MaxEdits
  /\ data' = Append(data,
       Member1(Fields1, id, Len(data) + 1, form.stateCode,
               toUpperCase(form.fullName), form.gender, form.phone,
               IF form.ppa # <<>> THEN form.ppa ELSE Unassigned))
  /\ nEdits' = nEdits + 1
  /\ UNCHANGED <<variant, isProcessing, processingStep, metadata, error,
                 selectedGroup, fileVars, viewVars, editVars, runs, xcall,
                 docVars, reportVars>>

\* the forms the user can submit: fullName, stateCode and ppa are required
AddForms ==
  {[fullName |-> <<"A","b">>, stateCode |-> <<"k","t">>, gender |-> g,
    phone |-> <<>>, ppa |-> <<"A","b">>] : g \in {sM, sF}}

\* part_002 updateMember, called from an input of a table row
updateMember(id, field, value) ==
  /\ Rendered
  /\ variant = "P2"
  /\ nEdits < MaxEdits
  /\ \E i \in 1..Len(filteredData) : filteredData[i].id = id
  /\ editableData' = SetField(editableData, id, field, value)
  /\ nEdits' = nEdits + 1
  /\ UNCHANGED <<variant, stateVars, fileVars, viewVars, editableMetadata,
                 runs, xcall,
                 docVars, reportVars>>

\* part_002 removeMember
removeMember(id) ==
  /\ Rendered
  /\ variant = "P2"
  /\ nEdits < MaxEdits
  /\ \E i \in 1..Len(filteredData) : filteredData[i].id = id
  /\ editableData' = WithoutId(editableData, id)
  /\ nEdits' = nEdits + 1
  /\ UNCHANGED <<variant, stateVars, fileVars, viewVars, editableMetadata,
                 runs, xcall,
                 docVars, reportVars>>

\* part_002 lines 259-267: the inputs of the document header, shown in
\* official mode: setEditableMetadata({...editableMetadata, [field]: value})
updateMetadata(field, value) ==
  /\ variant = "P2"
  /\ mode = "official"
  /\ nEdits < MaxEdits
  /\ editableMetadata' =
       [editableMetadata EXCEPT !.has = @ \cup {field}, ![field] = value]
  /\ nEdits' = nEdits + 1
  /\ UNCHANGED <<variant, stateVars, fileVars, viewVars, editableData,
                 runs, xcall,
                 docVars, reportVars>>

\* Math.max(...list.map(m => m.sn)); NaN (a record without sn) is reported
\* as has = FALSE
RECURSIVE MaxOf(_)
MaxOf(S) == IF S = {} THEN 0
            ELSE LET x == CHOOSE x \in S : TRUE
                     rest == MaxOf(S \ {x})
                 IN IF S = {x} \/ x > rest THEN x ELSE rest
MaxSn(list) ==
  [has |-> \A i \in 1..Len(list) : "sn" \in list[i].has,
   v |-> MaxOf({list[i].sn : i \in 1..Len(list)})]

\* the ids `manual-${Date.now()}` of the model: two clock readings
ManualIds == {<<"m","1">>, <<"m","2">>}

\* part_002 addNewMember: a blank row on top of the list
addNewMemberP2(id) ==
  /\ Rendered
  /\ variant = "P2"
  /\ nEdits < MaxEdits
  /\ LET lastSn == IF editableData # <<>> THEN MaxSn(editableData)
                   ELSE [has |-> TRUE, v |-> 0]
         newMember ==
           Member2((Fields2 \cup {"id"}) \ ({"attendanceDate"}
                      \cup (IF lastSn.has THEN {} ELSE {"sn"})),
                   id, IF lastSn.has THEN lastSn.v + 1 ELSE 0, <<>>, <<>>,
                   <<>>, <<>>, sM, <<>>, <<>>, Clearance, Monday)
     IN editableData' = <<newMember>> \o editableData
  /\ nEdits' = nEdits + 1
  /\ UNCHANGED <<variant, stateVars, fileVars, viewVars, editableMetadata,
                 runs, xcall,
                 docVars, reportVars>>

\* the fields the rows of the tables bind to a text input
EditFields1 == {"stateCode", "fullName", "companyName"}
EditFields2 == {"stateCode", "surname", "companyName"}

\* ------------------------------------------------------------------------
\* The application
\* ------------------------------------------------------------------------
IdSeqs(n) == [1..n -> Ids]

\* the call of run r settles, with any response the AI service can give
settles(r) ==
  \E resp \in (IF variant = "P2" THEN AppResponses2 ELSE AppResponses1) :
    \E ids \in IdSeqs(IF variant = "P2" THEN Len(resp.members) ELSE 0) :
      settle(r, resp, ids)

Next ==
  \/ \E fs \in SeqUpTo(Files, MaxFiles) :
       nSelected + Len(fs) <= MaxFiles /\ handleFileUpload(fs)
  \/ \E i \in 1..MaxFiles : readerOnload(i)
  \/ \E i \in 1..MaxFiles : removeFile(i)
  \/ clearQueue
  \/ processFiles
  \/ \E r \in 1..MaxRuns : scanningDone(r)
  \/ \E r \in 1..MaxRuns : settles(r)
  \/ \E r \in 1..MaxRuns : validatingDone(r)
  \/ dismissError
  \/ \E t \in SearchTerms : setSearchTerm(t)
  \/ \E t \in {<<>>, <<"a","B">>} : setPpaSearch(t)
  \/ \E g \in {Null} \cup {groups[i].key : i \in 1..Len(groups)} : selectGroup(g)
  \/ clearData
  \/ cancelExtraction
  \/ \E id \in Ids : \E field \in EditFields1 : \E value \in EditValues :
       handleEditChange(id, field, value)
  \/ \E id \in Ids : \E value \in {sM, sF} : handleEditChange(id, "gender", value)
  \/ \E id \in Ids : deleteMember(id)
  \/ \E id \in Ids : \E form \in AddForms : addNewMemberApp(id, form)
  \/ \E id \in Ids \cup ManualIds : \E field \in EditFields2 :
       \E value \in EditValues : updateMember(id, field, value)
  \/ \E id \in Ids \cup ManualIds : \E value \in {sM, sF} :
       updateMember(id, "gender", value)
  \/ \E id \in Ids \cup ManualIds : removeMember(id)
  \/ \E id \in ManualIds : addNewMemberP2(id)
  \/ \E field \in {"lga", "batchInfo", "title"} : \E value \in EditValues :
       updateMetadata(field, value)
  \/ \E m \in {"landing", "plain", "official"} : setMode(m)

Spec == Init /\ [][Next]_vars

\* ------------------------------------------------------------------------
\* extractCorpsData on its own: one call per behaviour, the response of the
\* AI service drawn from Responses1 / Responses2
\* ------------------------------------------------------------------------
InitExtract ==
  /\ xcall \in
       {[svc |-> 1, resp |-> resp, ids |-> <<>>, settled |-> FALSE,
         result |-> NoResult] : resp \in Responses1}
       \cup
       UNION {{[svc |-> 2, resp |-> resp, ids |-> ids, settled |-> FALSE,
                result |-> NoResult] : ids \in IdSeqs(Len(resp.members))}
              : resp \in Responses2}
  /\ variant = IF xcall.svc = 1 THEN "App" ELSE "P2"
  /\ AppInit

\* the first version of extractCorpsData runs to its return or throw
extractSettle1 ==
  /\ xcall.svc = 1
  /\ ~xcall.settled
  /\ xcall' = [xcall EXCEPT !.settled = TRUE,
                            !.result = extractCorpsData1(xcall.resp)]
  /\ UNCHANGED <<variant, stateVars, fileVars, viewVars, editVars, runs, nEdits,
                 docVars, reportVars>>

\* the second version of extractCorpsData runs to its return or throw
extractSettle2 ==
  /\ xcall.svc = 2
  /\ ~xcall.settled
  /\ xcall' = [xcall EXCEPT !.settled = TRUE,
                            !.result = extractCorpsData2(xcall.resp, xcall.ids)]
  /\ UNCHANGED <<variant, stateVars, fileVars, viewVars, editVars, runs, nEdits,
                 docVars, reportVars>>

NextExtract == extractSettle1 \/ extractSettle2

SpecExtract == InitExtract /\ [][NextExtract]_vars

\* ------------------------------------------------------------------------
\* Properties of extractCorpsData (specification SpecExtract)
\* ------------------------------------------------------------------------
Bijections(n) ==
  {p \in [1..n -> 1..n] : \A i, j \in 1..n : i # j => p[i] # p[j]}
LowerLetters == {Lower[i] : i \in 1..26}
IsUpperCase(s) == \A i \in 1..Len(s) : s[i] \notin LowerLetters
\* the raw gender is present and its first character is f or F
RawGenderIsF(m) ==
  "gender" \in m.has /\ m.gender # <<>> /\ m.gender[1] \in {"f", "F"}
RawCompanyMissing(m) == "companyName" \notin m.has \/ m.companyName = <<>>
\* the members array of the reply and the list the call returned
xraw == IF xcall.resp.hasMembers THEN xcall.resp.members ELSE <<>>
xout == xcall.result.members
xReturned == xcall.settled /\ xcall.result.ok

\* o is a returned record made from the reply's record m: the fields the
\* cleanup leaves alone are those of m
MadeFrom(o, m) ==
  /\ ("sn" \in o.has) = ("sn" \in m.has)
  /\ o.sn = m.sn
  /\ xcall.svc = 1 => o.id = m.id /\ o.stateCode = m.stateCode /\ o.phone = m.phone
  /\ xcall.svc = 2 => o.day = m.day /\ o.attendanceType = m.attendanceType

\* C7: every returned record has gender 'M' or 'F', 'F' exactly when the raw
\* value starts with f or F (a missing or other value gives 'M'); in the first
\* service version fullName and companyName are upper case and companyName is
\* 'UNASSIGNED' when the raw value is missing or empty
C7_IngestionCoercion ==
  xReturned =>
    /\ Len(xout) = Len(xraw)
    /\ \E p \in Bijections(Len(xout)) :
         \A i \in 1..Len(xout) :
           LET o == xout[i]
               m == xraw[p[i]]
           IN /\ MadeFrom(o, m)
              /\ "gender" \in o.has /\ o.gender \in {sM, sF}
              /\ (o.gender = sF) <=> RawGenderIsF(m)
              /\ xcall.svc = 1 =>
                   /\ IsUpperCase(o.fullName) /\ IsUpperCase(o.companyName)
                   /\ RawCompanyMissing(m) => o.companyName = UNASSIGNED

\* a call of the first version returned a record made from a lower-case
\* "f" and a record made from a missing gender and a missing companyName
C7_Witness ==
  /\ xReturned /\ xcall.svc = 1
  /\ \E i \in 1..Len(xraw) : xraw[i].gender = <<"f">>
  /\ \E i \in 1..Len(xraw) : "gender" \notin xraw[i].has /\ RawCompanyMissing(xraw[i])
  /\ \E i \in 1..Len(xout) : xout[i].gender = sF
  /\ \E i \in 1..Len(xout) : xout[i].gender = sM /\ xout[i].companyName = UNASSIGNED

\* C8: the returned list has one record per member of the reply (none
\* dropped, none duplicated), in non-decreasing order of sn (a missing sn
\* counts as 0), records of equal sn in their reply order
C8_SortedPermutation ==
  xReturned =>
    /\ Len(xout) = Len(xraw)
    /\ \E p \in Bijections(Len(xout)) :
         /\ \A i \in 1..Len(xout) :
              xout[i] = IF xcall.svc = 1 THEN cleanup1(xraw[p[i]])
                        ELSE cleanup2(xraw[p[i]], xcall.ids[p[i]])
         /\ \A i, j \in 1..Len(xout) :
              i < j => /\ SnKey(xout[i]) <= SnKey(xout[j])
                       /\ SnKey(xout[i]) = SnKey(xout[j]) => p[i] < p[j]

\* a call returned two records the sort had to swap, or two different
\* records of equal key
C8_Witness ==
  /\ xReturned /\ Len(xout) = 2
  /\ \/ SnKey(xraw[1]) > SnKey(xraw[2])
     \/ /\ SnKey(xraw[1]) = SnKey(xraw[2]) /\ xout[1] # xout[2]
        /\ "sn" \notin xraw[1].has /\ "sn" \in xraw[2].has

\* the timers and the promises of the browser fire
LiveSpec ==
  /\ Spec
  /\ \A r \in 1..MaxRuns :
       /\ WF_vars(scanningDone(r))
       /\ WF_vars(validatingDone(r))
       /\ WF_vars(settles(r))

\* ------------------------------------------------------------------------
\* Properties of the extraction runs (specifications Spec and LiveSpec)
\* ------------------------------------------------------------------------
RunOver(r) == r \in 1..Len(runs) /\ runs[r].pc \in {"done", "failed"}
RunInFlight(r) == r \in 1..Len(runs) /\ runs[r].pc \notin {"done", "failed"}
\* this step is the catch clause / the last statement of the try block of run r
RunFails(r) == RunInFlight(r) /\ runs'[r].pc = "failed"
RunSucceeds(r) == RunInFlight(r) /\ runs'[r].pc = "done"

\* C1 as stated: a failed run ends with an error message, isProcessing false,
\* step idle and the record list as it was when the run started
C1_Original ==
  [][\A r \in 1..MaxRuns :
       RunFails(r) => /\ error' # Null /\ error' # <<>>
                      /\ ~isProcessing' /\ processingStep' = "idle"
                      /\ data' = runs[r].data0]_vars

\* C1 amended: a failed run ends with an error message, isProcessing false,
\* step idle, and the catch clause leaves the record list as it finds it
C1_FailureKeepsData ==
  [][\A r \in 1..MaxRuns :
       RunFails(r) => /\ error' # Null /\ error' # <<>>
                      /\ ~isProcessing' /\ processingStep' = "idle"
                      /\ data' = data]_vars

\* a run has failed while the list held records
C1_Witness ==
  \E r \in 1..Len(runs) :
    runs[r].pc = "failed" /\ error # Null /\ data # <<>> /\ ~isProcessing

\* the message that a substring match on err.message selects
MessageBySubstring(message) ==
  CASE includes(message, AUTH_ERROR) -> MsgAuth
    [] includes(message, SERVICE_OVERLOAD) -> MsgOverload
    [] includes(message, NETWORK_ERROR) -> MsgNetwork
    [] includes(message, RECOGNITION_ERROR) -> MsgRecognition
    [] OTHER -> MsgGeneric

\* C2 as stated: in App.tsx the catch clause picks the message of the code
\* that err.message contains, the generic message when it contains none
C2_Original ==
  [][\A r \in 1..MaxRuns :
       (variant = "App" /\ RunFails(r)) =>
         error' = MessageBySubstring(runs'[r].err)]_vars

\* C2 amended: in App.tsx the catch clause picks the message of the code
\* that err.message is equal to, the generic message for every other error
C2_ExactMatch ==
  [][\A r \in 1..MaxRuns :
       (variant = "App" /\ RunFails(r)) =>
         LET e == runs'[r].err
         IN /\ e = AUTH_ERROR => error' = MsgAuth
            /\ e = SERVICE_OVERLOAD => error' = MsgOverload
            /\ e = NETWORK_ERROR => error' = MsgNetwork
            /\ e = RECOGNITION_ERROR => error' = MsgRecognition
            /\ e \notin {AUTH_ERROR, SERVICE_OVERLOAD, NETWORK_ERROR,
                         RECOGNITION_ERROR} => error' = MsgGeneric]_vars

\* App.tsx shows the generic message for an error whose message contains
\* AUTH_ERROR
C2_Witness ==
  /\ variant = "App"
  /\ \E r \in 1..Len(runs) :
       runs[r].pc = "failed" /\ runs[r].err = MsgApiAuth /\ error = MsgGeneric

\* C3: a run calls extractCorpsData exactly once (not at all before the
\* scanning timer of App.tsx fires), also when the call fails
C3_NoRetry ==
  \A r \in 1..Len(runs) :
    runs[r].calls = (IF runs[r].pc = "scanning" THEN 0 ELSE 1)

\* a run has failed and the user has started the next one
C3_Witness ==
  /\ Len(runs) = 2
  /\ runs[1].pc = "failed" /\ runs[1].calls = 1
  /\ runs[2].pc = "extracting" /\ runs[2].calls = 1

\* C4: every run that set isProcessing ends with isProcessing false and the
\* step idle, whether the call resolves or rejects
C4_ProcessingEnds ==
  \A r \in 1..MaxRuns :
    RunInFlight(r) ~> (RunOver(r) /\ ~isProcessing /\ processingStep = "idle")

\* one run has failed, another has succeeded, nothing is in flight
C4_Witness ==
  /\ Len(runs) = 2
  /\ runs[1].pc = "failed" /\ runs[2].pc = "done"
  /\ ~isProcessing /\ processingStep = "idle"

\* C9: a successful extraction makes data the list that extractCorpsData
\* returned (in part_002 the working copy too) and App.tsx resets selectedGroup
C9_ExtractionReplaces ==
  [][\A r \in 1..MaxRuns :
       RunSucceeds(r) =>
         /\ data' = runs'[r].result.members
         /\ variant = "App" => selectedGroup' = Null
         /\ variant = "P2" => editableData' = runs'[r].result.members]_vars

\* a successful extraction after a manual addition or an edit: the list is
\* the returned list
C9_Witness ==
  /\ nEdits >= 1
  /\ variant \in {"App", "P2"}
  /\ \E r \in 1..Len(runs) :
       /\ runs[r].pc = "done" /\ runs[r].result.members # <<>>
       /\ data = runs[r].result.members
  /\ variant = "P2" => editableData = data

\* ------------------------------------------------------------------------
\* Properties of the derived lists (specification Spec)
\* ------------------------------------------------------------------------
Grouping == {"App", "P0a", "P1"}
\* the groups on screen
shownGroups ==
  CASE variant = "App" -> groups
    [] variant = "P0a" -> sortedPPAs
    [] variant = "P1" -> filteredSortedPPAs
    [] OTHER -> <<>>
RECURSIVE SumSizes(_)
SumSizes(gs) ==
  IF gs = <<>> THEN 0 ELSE Len(Head(gs).members) + SumSizes(Tail(gs))

\* gs partitions list by Key: every position of list falls into exactly one
\* group, the group of its key, no group is empty, and a group lists its
\* records in the order of list
IsPartition(gs, list, Key(_)) ==
  /\ \A i \in 1..Len(gs) : gs[i].members # <<>>
  /\ \A i, j \in 1..Len(gs) : gs[i].key = gs[j].key => i = j
  /\ \A p \in 1..Len(list) :
       Cardinality({i \in 1..Len(gs) : gs[i].key = Key(list[p])}) = 1
  /\ \A i \in 1..Len(gs) :
       gs[i].members = SelectSeq(list, LAMBDA m : Key(m) = gs[i].key)
  /\ SumSizes(gs) = Len(list)

\* C5 as stated: the groups partition the record list, the key of a group is
\* the companyName of its records
C5_Original ==
  variant \in Grouping =>
    IsPartition(shownGroups, data, LAMBDA m : m.companyName)

PlaceholderKey(m) ==
  IF m.companyName = <<>> THEN UnassignedNotFound ELSE m.companyName

\* C5 amended: the groups partition the grouped list (the record list; the
\* filtered list in part_001), the key of a group is the companyName of its
\* records compared case-sensitively, in App.tsx 'Unassigned / Not Found' for
\* an empty companyName
C5_GroupsPartition ==
  CASE variant = "App" -> IsPartition(groups, data, PlaceholderKey)
    [] variant = "P0a" ->
         IsPartition(sortedPPAs, data, LAMBDA m : m.companyName)
    [] variant = "P1" ->
         IsPartition(filteredSortedPPAs,
                     SelectSeq(data, LAMBDA m : Matches1(m, searchTerm)),
                     LAMBDA m : m.companyName)
    [] OTHER -> TRUE

\* two groups whose keys differ in letter case only
C5_Witness ==
  /\ variant \in Grouping
  /\ \E i, j \in 1..Len(shownGroups) :
       /\ i # j
       /\ toLowerCase(shownGroups[i].key) = toLowerCase(shownGroups[j].key)

\* C6: where records are grouped no group has an empty key, and a record with
\* an empty companyName is in a group with a non-empty key
C6_PlaceholderGroup ==
  variant \in Grouping =>
    /\ \A i \in 1..Len(shownGroups) : shownGroups[i].key # <<>>
    /\ \A p \in 1..Len(data) :
         (data[p].companyName = <<>> /\ variant # "P1") =>
           \E i \in 1..Len(shownGroups) :
             /\ shownGroups[i].key # <<>>
             /\ data[p] \in Range(shownGroups[i].members)
    /\ variant # "App" => \A p \in 1..Len(data) : data[p].companyName # <<>>

\* App.tsx shows a record with an empty companyName under the placeholder
C6_Witness ==
  /\ variant = "App"
  /\ \E p \in 1..Len(data) : \E i \in 1..Len(groups) :
       /\ data[p].companyName = <<>>
       /\ groups[i].key = UnassignedNotFound
       /\ data[p] \in Range(groups[i].members)

\* the base list of the search
searchBase ==
  CASE variant = "App" ->
         IF selectedGroup = Null THEN data
         ELSE SelectSeq(data, LAMBDA m : PlaceholderKey(m) = selectedGroup)
    [] variant = "P2" -> editableData
    [] OTHER -> data
\* the list on screen
shownList == IF variant = "App" THEN filteredMembers ELSE filteredData
Has(field, term) == includes(toLowerCase(field), toLowerCase(term))
Joined(parts) ==
  IF Len(parts) = 1 THEN parts[1]
  ELSE parts[1] \o <<" ">> \o parts[2] \o <<" ">> \o parts[3]
NameOf(m) ==
  IF variant = "P2" THEN Joined(<<m.surname, m.firstName, m.middleName>>)
  ELSE m.fullName

\* C10 as stated: the list on screen is the records of the base list whose
\* name, stateCode or companyName contains the search term, letter case
\* ignored, in the order of the base list
C10_Original ==
  shownList =
    SelectSeq(searchBase,
              LAMBDA m : \/ Has(NameOf(m), searchTerm)
                         \/ Has(m.stateCode, searchTerm)
                         \/ Has(m.companyName, searchTerm))

\* C10 amended: as stated in App.tsx, part_000 and part_001; in part_002 the
\* term is looked for in 'surname firstName middleName stateCode' and not in
\* companyName, and ppaSearch, when not empty, must occur in companyName
C10_SearchFilter ==
  /\ variant # "P2" =>
       shownList =
         SelectSeq(searchBase,
                   LAMBDA m : \/ Has(m.fullName, searchTerm)
                              \/ Has(m.stateCode, searchTerm)
                              \/ Has(m.companyName, searchTerm))
  /\ variant = "P2" =>
       shownList =
         SelectSeq(searchBase,
                   LAMBDA m :
                     /\ Has(NameOf(m) \o <<" ">> \o m.stateCode, searchTerm)
                     /\ ppaSearch # <<>> => Has(m.companyName, ppaSearch))
  /\ (searchTerm = <<>> /\ (variant = "P2" => ppaSearch = <<>>)) =>
       shownList = searchBase

\* a search term in other letter case than the record it finds, and a record
\* it does not find
C10_Witness ==
  /\ variant # "P2"
  /\ searchTerm # <<>>
  /\ shownList # <<>>
  /\ Len(shownList) < Len(searchBase)
  /\ \A p \in 1..Len(shownList) :
       /\ ~includes(shownList[p].fullName, searchTerm)
       /\ ~includes(shownList[p].stateCode, searchTerm)
       /\ ~includes(shownList[p].companyName, searchTerm)

\* ------------------------------------------------------------------------
\* Exports (CSV in App.tsx, part_000 and part_001; PDF in part_002)
\* ------------------------------------------------------------------------
\* Array.prototype.join on strings
RECURSIVE join(_, _)
join(parts, sep) ==
  IF parts = <<>> THEN <<>>
  ELSE IF Len(parts) = 1 THEN parts[1]
  ELSE parts[1] \o sep \o join(Tail(parts), sep)

\* String(n) for a natural number
Digits == <<"0","1","2","3","4","5","6","7","8","9">>
RECURSIVE NumToStr(_)
NumToStr(n) ==
  IF n < 10 THEN <<Digits[n + 1]>>
  ELSE NumToStr(n \div 10) \o <<Digits[(n % 10) + 1]>>

sUndefined == <<"u","n","d","e","f","i","n","e","d">>
sComma == <<",">>
sNewline == <<"\n">>
sQuote == <<"\"">>

\* an element of an array that is joined: undefined gives the empty string
Elem(m, f) ==
  IF f \notin m.has THEN <<>>
  ELSE IF f = "sn" THEN NumToStr(m.sn) ELSE m[f]
\* `"${m.f}"`: undefined gives the text undefined
Quoted(m, f) ==
  sQuote \o (IF f \in m.has THEN m[f] ELSE sUndefined) \o sQuote
\* s.replace(/"/g, '""')
RECURSIVE doubleQuotes(_)
doubleQuotes(s) ==
  IF s = <<>> THEN <<>>
  ELSE (IF Head(s) = "\"" THEN <<"\"", "\"">> ELSE <<Head(s)>>)
       \o doubleQuotes(Tail(s))

\* the header cells
sSN == <<"S","N">>
sStateCode == <<"S","t","a","t","e"," ","C","o","d","e">>
sFullName == <<"F","u","l","l"," ","N","a","m","e">>
sGender == <<"G","e","n","d","e","r">>
sGsmNo == <<"G","S","M"," ","N","O">>
sPhone == <<"P","h","o","n","e">>
sPPA == <<"P","P","A">>
csvHeaders(v) ==
  IF v = "App"
  THEN <<sSN, sStateCode, sFullName, sGender, sGsmNo, sPPA>>
  ELSE <<sSN, sStateCode, sFullName, sGender, sPhone, sPPA>>

\* the cells of the row of record m
csvRow(v, m) ==
  CASE v = "App" ->
         <<Elem(m, "sn"), Quoted(m, "stateCode"), Quoted(m, "fullName"),
           Elem(m, "gender"), Quoted(m, "phone"), Quoted(m, "companyName")>>
    [] v = "P0a" ->
         <<Elem(m, "sn"), Elem(m, "stateCode"),
           sQuote \o doubleQuotes(m.fullName) \o sQuote,
           Elem(m, "gender"), Elem(m, "phone"),
           sQuote \o doubleQuotes(m.companyName) \o sQuote>>
    [] OTHER ->
         <<Elem(m, "sn"), Elem(m, "stateCode"), Quoted(m, "fullName"),
           Elem(m, "gender"), Elem(m, "phone"), Quoted(m, "companyName")>>

\* a CSV export that always writes the whole record list
csvList_WholeList(v) == data

\* the list that is exported
csvList(v) ==
  CASE v = "App" -> filteredMembers
    [] v = "P0a" -> data
    [] OTHER -> filteredData

\* csvContent
csvContent(v, list) ==
  join(<<join(csvHeaders(v), sComma)>>
         \o [i \in 1..Len(list) |-> join(csvRow(v, list[i]), sComma)],
       sNewline)

\* the export button is rendered: the toolbar of App.tsx always, the header
\* buttons of part_000 and part_001 when there are records
csvShown == variant = "App" \/ (variant \in {"P0a", "P1"} /\ data # <<>>)

\* downloadCSV of App.tsx, exportToCSV of part_000 and part_001
downloadCSV ==
  /\ csvShown
  /\ doc' = IF csvList(variant) = <<>>
            THEN [NoDoc EXCEPT !.kind = "csv"]
            ELSE [NoDoc EXCEPT !.kind = "csv", !.produced = TRUE,
                               !.content = csvContent(variant, csvList(variant))]
  /\ UNCHANGED <<variant, stateVars, fileVars, viewVars, editVars, runs,
                 nEdits, xcall, mode, showGSM, showPPA,
                 reportVars>>

\* the records of the export specification: field values with a comma or a
\* double quote, absent fields
sNY1 == <<"N","Y","/","1">>
ExpAnn == Member1(Fields1, <<"i","1">>, 1, sNY1, <<"A","N","N">>, sF,
                  Phone08, <<"A","B">>)
ExpBo == Member1(Fields1, <<"i","2">>, 2, <<"K","T">>, <<"B",",","O">>, sM,
                 <<>>, <<"X","\"","Y">>)
ExpAl == Member1(Fields1 \ {"sn", "phone"}, <<"i","2">>, 0, <<"K",",","T">>,
                 <<"A","L">>, sM, <<>>, <<"A","B">>)
ExportMembers1 == {ExpAnn, ExpBo, ExpAl}

ExpDoe ==
  Member2(Fields2 \cup {"id"}, <<"i","1">>, 1, sNY1, <<"D","O","E">>,
  <<"J","o">>, <<>>, sF, Phone08, <<"A","b">>, <<>>, <<>>)
ExpRay ==
  Member2((Fields2 \cup {"id"}) \ {"attendanceDate", "attendanceType",
  "day"}, <<"i","2">>, 2, <<"K","T">>, <<"R","A","Y">>, <<"J","o">>,
  <<"K">>, sM, <<>>, <<>>, <<>>, <<>>)
ExpKim ==
  Member2(Fields2 \cup {"id"}, <<"i","2">>, 3, <<"K","T">>,
  <<"K","I","M">>, <<"A","l">>, <<"B">>, sM, <<"0","7">>, <<"Z","e","d">>,
  <<"E","x","a","m">>, <<"F","r","i">>)
ExportMembers2 == {ExpDoe, ExpRay, ExpKim}

\* a cell handed to autoTable: the value, undefined for an absent property
Cell(m, f) ==
  IF f \notin m.has THEN Null
  ELSE IF f = "sn" THEN NumToStr(m.sn) ELSE m[f]
\* `${m.f}`
Template(m, f) == IF f \in m.has THEN m[f] ELSE sUndefined

sSurname == <<"S","u","r","n","a","m","e">>
sFirstname == <<"F","i","r","s","t","n","a","m","e">>
sMiddle == <<"M","i","d","d","l","e">>
sSex == <<"S","e","x">>
sPPAOrg == <<"P","P","A"," ","/"," ","O","r","g","a","n","i","z","a","t","i","o","n">>
sType == <<"T","y","p","e">>
sDay == <<"D","a","y">>

\* part_002 lines 145-148
officialHeaders ==
  <<sSN, sStateCode, sSurname, sFirstname, sMiddle, sSex>>
    \o (IF showGSM THEN <<sPhone>> ELSE <<>>)
    \o (IF showPPA THEN <<sPPAOrg>> ELSE <<>>)
    \o <<sType, sDay>>

\* a row in the column order of the table on screen, PPA before Phone
officialRow_PPAFirst(m) ==
  <<Cell(m, "sn"), Cell(m, "stateCode"), Cell(m, "surname"),
    Cell(m, "firstName"), StrOr(m, "middleName", <<>>), Cell(m, "gender")>>
    \o (IF showPPA THEN <<Cell(m, "companyName")>> ELSE <<>>)
    \o (IF showGSM THEN <<Cell(m, "phone")>> ELSE <<>>)
    \o <<StrOr(m, "attendanceType", Clearance), StrOr(m, "day", Monday)>>

\* part_002 lines 150-156
officialRow(m) ==
  <<Cell(m, "sn"), Cell(m, "stateCode"), Cell(m, "surname"),
    Cell(m, "firstName"), StrOr(m, "middleName", <<>>), Cell(m, "gender")>>
    \o (IF showGSM THEN <<Cell(m, "phone")>> ELSE <<>>)
    \o (IF showPPA THEN <<Cell(m, "companyName")>> ELSE <<>>)
    \o <<StrOr(m, "attendanceType", Clearance), StrOr(m, "day", Monday)>>

\* part_002 lines 168-171
plainHeaders == <<sSN, sStateCode, sFullName, sGender, sPhone, sPPAOrg>>
plainRow(m) ==
  <<Cell(m, "sn"), Cell(m, "stateCode"),
    Template(m, "surname") \o <<" ">> \o Template(m, "firstName") \o <<" ">>
      \o Template(m, "middleName"),
    Cell(m, "gender"), Cell(m, "phone"), Cell(m, "companyName")>>

\* part_002 generatePDF: the head and the body handed to autoTable
generatePDF ==
  /\ variant = "P2"
  /\ Rendered
  /\ doc' = IF mode = "official"
            THEN [NoDoc EXCEPT !.kind = "pdf", !.produced = TRUE,
                    !.head = officialHeaders,
                    !.body = [i \in 1..Len(filteredData) |->
                                officialRow(filteredData[i])]]
            ELSE [NoDoc EXCEPT !.kind = "pdf", !.produced = TRUE,
                    !.head = plainHeaders,
                    !.body = [i \in 1..Len(filteredData) |->
                                plainRow(filteredData[i])]]
  /\ UNCHANGED <<variant, stateVars, fileVars, viewVars, editVars, runs,
                 nEdits, xcall, mode, showGSM, showPPA,
                 reportVars>>

\* part_002 lines 304-305: the column toggles of the official mode
toggleGSM ==
  /\ variant = "P2" /\ mode = "official"
  /\ showGSM' = ~showGSM
  /\ UNCHANGED <<variant, stateVars, fileVars, viewVars, editVars, runs,
                 nEdits, xcall, mode, showPPA, doc,
                 reportVars>>
togglePPA ==
  /\ variant = "P2" /\ mode = "official"
  /\ showPPA' = ~showPPA
  /\ UNCHANGED <<variant, stateVars, fileVars, viewVars, editVars, runs,
                 nEdits, xcall, mode, showGSM, doc,
                 reportVars>>

\* the exports on their own: any record list, then searches, group
\* selections, toggles and export clicks
InitExport ==
  /\ variant \in Variants
  /\ data \in SeqUpTo(IF variant = "P2" THEN ExportMembers2 ELSE ExportMembers1,
                      MaxMembers)
  \* part_000 and part_001 hold what the service returned: upper case
  \* PPA names, in ascending order of sn
  /\ variant \in {"P0a", "P1"} =>
       /\ \A i \in 1..Len(data) : IsUpperCase(data[i].companyName)
       /\ \A i, j \in 1..Len(data) : i < j => SnKey(data[i]) <= SnKey(data[j])
  /\ editableData = IF variant = "P2" THEN data ELSE <<>>
  /\ isProcessing = FALSE
  /\ processingStep = "idle"
  /\ metadata = IF variant = "P2" THEN InitialMetadata ELSE NoMetadata
  /\ editableMetadata = metadata
  /\ error = Null
  /\ selectedGroup = Null
  /\ uploadedFiles = <<>>
  /\ reading = <<>>
  /\ searchTerm = <<>>
  /\ ppaSearch = <<>>
  /\ runs = <<>>
  /\ nSelected = 0
  /\ nEdits = 0
  /\ xcall = NoCall
  /\ mode = IF variant = "P2" THEN "landing" ELSE "none"
  /\ showGSM = TRUE
  /\ showPPA = TRUE
  /\ doc = NoDoc
  /\ viewMode = "table"
  /\ sizeSorted = FALSE

NextExport ==
  \/ downloadCSV
  \/ generatePDF
  \/ toggleGSM
  \/ togglePPA
  \/ \E m \in {"landing", "plain", "official"} : setMode(m)
  \/ \E t \in SearchTerms : setSearchTerm(t)
  \/ \E t \in {<<>>, <<"a","B">>} : setPpaSearch(t)
  \/ \E g \in {Null} \cup {groups[i].key : i \in 1..Len(groups)} : selectGroup(g)

SpecExport == InitExport /\ [][NextExport]_vars

\* ------------------------------------------------------------------------
\* Properties of the exports (specification SpecExport)
\* ------------------------------------------------------------------------
\* the pieces of s between the occurrences of the character c
RECURSIVE SplitOn(_, _)
SplitOn(s, c) ==
  IF \E i \in 1..Len(s) : s[i] = c
  THEN LET i == CHOOSE i \in 1..Len(s) :
                  s[i] = c /\ \A j \in 1..(i - 1) : s[j] # c
       IN <<SubSeq(s, 1, i - 1)>> \o SplitOn(SubSeq(s, i + 1, Len(s)), c)
  ELSE <<s>>

\* the click wrote d from list: nothing when list is empty, else the header
\* line and then the line of each record of list, in order
WritesList(d, list) ==
  IF list = <<>> THEN ~d.produced
  ELSE /\ d.produced
       /\ LET lines == SplitOn(d.content, "\n")
          IN /\ Len(lines) = 1 + Len(list)
             /\ lines[1] = join(csvHeaders(variant), sComma)
             /\ \A i \in 1..Len(list) :
                  lines[i + 1] = join(csvRow(variant, list[i]), sComma)

\* C11 as stated: a CSV export writes the header line and one line per
\* record of the filtered list, in order, and no file when that list is empty
C11_Original ==
  [][(doc' # doc /\ doc'.kind = "csv") => WritesList(doc', shownList)]_vars

\* C11 amended: in App.tsx and part_001 a CSV export writes the header line
\* and one line per record of the filtered list, in order, and no file when
\* that list is empty; in part_000 it writes the whole record list, whatever
\* the search term
C11_CsvLines ==
  [][(doc' # doc /\ doc'.kind = "csv") =>
       WritesList(doc', IF variant = "P0a" THEN data ELSE shownList)]_vars

\* a search hides a record and the file has the header and the lines of the
\* records that are left
C11_Witness ==
  /\ variant \in {"App", "P1"}
  /\ doc.kind = "csv" /\ doc.produced
  /\ Len(shownList) < Len(data)
  /\ doc.content = csvContent(variant, shownList)
  /\ Len(SplitOn(doc.content, "\n")) = 1 + Len(shownList)

\* reading a line back with the quoting rules of RFC 4180: fields are
\* separated by commas, a field that starts with a double quote ends at the
\* next double quote that is not doubled, and "" inside it is one quote
BadLine == [ok |-> FALSE, fields |-> <<>>]
RECURSIVE ReadQuoted(_, _)
ReadQuoted(s, acc) ==
  IF s = <<>> THEN [ok |-> FALSE, value |-> acc, rest |-> <<>>]
  ELSE IF s[1] = "\""
       THEN IF Len(s) >= 2 /\ s[2] = "\""
            THEN ReadQuoted(SubSeq(s, 3, Len(s)), Append(acc, "\""))
            ELSE [ok |-> TRUE, value |-> acc, rest |-> Tail(s)]
       ELSE ReadQuoted(Tail(s), Append(acc, s[1]))
RECURSIVE ParseFields(_)
ParseFields(s) ==
  IF s # <<>> /\ s[1] = "\""
  THEN LET r == ReadQuoted(Tail(s), <<>>)
       IN IF ~r.ok THEN BadLine
          ELSE IF r.rest = <<>> THEN [ok |-> TRUE, fields |-> <<r.value>>]
          ELSE IF r.rest[1] = ","
               THEN LET t == ParseFields(Tail(r.rest))
                    IN [ok |-> t.ok, fields |-> <<r.value>> \o t.fields]
               ELSE BadLine
  ELSE LET parts == SplitOn(s, ",")
       IN IF Len(parts) = 1 THEN [ok |-> TRUE, fields |-> <<s>>]
          ELSE LET t == ParseFields(SubSeq(s, Len(parts[1]) + 2, Len(s)))
               IN [ok |-> t.ok, fields |-> <<parts[1]>> \o t.fields]

\* the six values of a record as text; an absent value is the empty text
FieldText(m, f) ==
  IF f \notin m.has THEN <<>>
  ELSE IF f = "sn" THEN NumToStr(m.sn) ELSE m[f]
SixFields(m) ==
  <<FieldText(m, "sn"), FieldText(m, "stateCode"), FieldText(m, "fullName"),
    FieldText(m, "gender"), FieldText(m, "phone"), FieldText(m, "companyName")>>

\* C12: every data line of an exported CSV, read back with the standard
\* quoting rules, gives the six fields of its record
C12_CsvRoundTrip ==
  [][(doc' # doc /\ doc'.kind = "csv" /\ doc'.produced) =>
       LET list == csvList(variant)
           lines == SplitOn(doc'.content, "\n")
       IN /\ Len(lines) = 1 + Len(list)
          /\ \A i \in 1..Len(list) :
               ParseFields(lines[i + 1]) =
                 [ok |-> TRUE, fields |-> SixFields(list[i])]]_vars

\* the value that belongs under a header label of the official table
ColumnValue(m, label) ==
  CASE label = sSN -> IF "sn" \in m.has THEN NumToStr(m.sn) ELSE Null
    [] label = sStateCode -> m.stateCode
    [] label = sSurname -> m.surname
    [] label = sFirstname -> m.firstName
    [] label = sMiddle -> m.middleName
    [] label = sSex -> m.gender
    [] label = sPhone -> m.phone
    [] label = sPPAOrg -> m.companyName
    [] label = sType ->
         IF "attendanceType" \in m.has /\ m.attendanceType # <<>>
         THEN m.attendanceType ELSE Clearance
    [] label = sDay -> IF "day" \in m.has /\ m.day # <<>> THEN m.day ELSE Monday
    [] OTHER -> Null
PositionsOf(head, label) == {c \in 1..Len(head) : head[c] = label}

\* C13: in official mode the head and every body row of the PDF table have
\* the same cells in the same positions, Phone iff showGSM, PPA iff showPPA,
\* Phone before PPA, one row per record of the filtered list in order, and
\* an empty attendanceType or day is written as Clearance or Monday
C13_PdfColumns ==
  [][(doc' # doc /\ doc'.kind = "pdf" /\ mode = "official") =>
       LET head == doc'.head
           body == doc'.body
       IN /\ Len(head) = 8 + (IF showGSM THEN 1 ELSE 0)
                           + (IF showPPA THEN 1 ELSE 0)
          /\ (PositionsOf(head, sPhone) # {}) = showGSM
          /\ (PositionsOf(head, sPPAOrg) # {}) = showPPA
          /\ \A p \in PositionsOf(head, sPhone) :
               \A q \in PositionsOf(head, sPPAOrg) : p < q
          /\ Len(body) = Len(filteredData)
          /\ \A i \in 1..Len(body) :
               /\ Len(body[i]) = Len(head)
               /\ \A c \in 1..Len(head) :
                    body[i][c] = ColumnValue(filteredData[i], head[c])]_vars

\* an official PDF without the Phone column, of a searched list, with a
\* record whose attendanceType is empty
C13_Witness ==
  /\ doc.kind = "pdf" /\ mode = "official"
  /\ ~showGSM /\ showPPA
  /\ doc.head = officialHeaders
  /\ Len(doc.body) = Len(filteredData)
  /\ Len(filteredData) < Len(editableData)
  /\ \E i \in 1..Len(filteredData) :
       /\ filteredData[i].attendanceType = <<>>
       /\ doc.body[i][8] = Clearance
       /\ doc.body[i][7] = filteredData[i].companyName

\* ------------------------------------------------------------------------
\* Properties of the record list handlers (specification Spec)
\* ------------------------------------------------------------------------
AllIds == Ids \cup ManualIds
\* after is before with field set to value on the records with this id and
\* nothing else changed
EditedOnly(before, after, id, field, value) ==
  /\ Len(after) = Len(before)
  /\ \A i \in 1..Len(before) :
       IF before[i].id = id
       THEN /\ field \in after[i].has
            /\ after[i][field] = value
            /\ after[i].has \ {field} = before[i].has \ {field}
            /\ \A f \in (DOMAIN before[i]) \ {field, "has"} :
                 after[i][f] = before[i][f]
       ELSE after[i] = before[i]

\* C14: handleEditChange / updateMember set the field to the value as given
\* on the records with the id and leave everything else of the list as it
\* was; an id that no record has changes nothing
C14_EditFrame ==
  [][/\ (nEdits' # nEdits /\ variant = "App" /\ Len(data') = Len(data)) =>
          \A id \in AllIds : \A value \in EditValues \cup {sM, sF} :
            \A field \in EditFields1 \cup {"gender"} :
              ((\E i \in 1..Len(data) : data[i].id = id /\ data'[i] # data[i])
                 /\ handleEditChange(id, field, value)) =>
                EditedOnly(data, data', id, field, value)
     /\ (nEdits' # nEdits /\ variant = "P2"
           /\ Len(editableData') = Len(editableData)) =>
          \A id \in AllIds : \A value \in EditValues \cup {sM, sF} :
            \A field \in EditFields2 \cup {"gender"} :
              ((\E i \in 1..Len(editableData) :
                   editableData[i].id = id /\ editableData'[i] # editableData[i])
                 /\ updateMember(id, field, value)) =>
                EditedOnly(editableData, editableData', id, field, value)
     /\ \A id \in AllIds : \A value \in EditValues :
          LET list == IF variant = "P2" THEN editableData ELSE data
          IN (\A i \in 1..Len(list) : list[i].id # id) =>
               SetField(list, id, "companyName", value) = list]_vars

\* an edit has put a mixed-case name into one of two records of App.tsx
C14_Witness ==
  /\ variant = "App"
  /\ nEdits >= 1
  /\ Len(data) = 2
  /\ \E i \in 1..2 : data[i].fullName = <<"A","b">>
  /\ \E i \in 1..2 : data[i].fullName # <<"A","b">>

\* after is before without the record at one position, which has this id
RemovedOne(before, after, id) ==
  \E k \in 1..Len(before) :
    /\ before[k].id = id
    /\ after = SubSeq(before, 1, k - 1) \o SubSeq(before, k + 1, Len(before))

\* C15: deleteMember / removeMember with the id of a row removes exactly
\* that one record and leaves the others as they were, in the same order
C15_DeleteOne ==
  [][/\ (nEdits' # nEdits /\ variant = "App" /\ Len(data') < Len(data)) =>
          \A id \in AllIds :
            deleteMember(id) => RemovedOne(data, data', id)
     /\ (nEdits' # nEdits /\ variant = "P2"
           /\ Len(editableData') < Len(editableData)) =>
          \A id \in AllIds :
            removeMember(id) => RemovedOne(editableData, editableData', id)]_vars

\* C16: no two records of the list have the same id
C16_DistinctIds ==
  /\ \A i, j \in 1..Len(data) : data[i].id = data[j].id => i = j
  /\ \A i, j \in 1..Len(editableData) :
       editableData[i].id = editableData[j].id => i = j

\* ------------------------------------------------------------------------
\* File staging on its own: selections, readers completing, removals
\* ------------------------------------------------------------------------
MaxUploads == 3

sTextPlain == <<"t","e","x","t","/","p","l","a","i","n">>
sMsExcel == <<"a","p","p","l","i","c","a","t","i","o","n","/",
              "v","n","d",".","m","s","-","e","x","c","e","l">>
sPdf == <<"p","d","f">>
sAppPdf == <<"a","p","p","l","i","c","a","t","i","o","n","/","p","d","f">>
sImageJpeg == <<"i","m","a","g","e","/","j","p","e","g">>

\* a CSV file whose type the browser reports as a spreadsheet, a CSV file
\* without a type, and a plain text file
FileXlsCsv == [name |-> <<"c",".","c","s","v">>, type |-> sMsExcel,
               text |-> <<"2",",","B",",","x">>, b64 |-> <<"M","i","x","C">>]
FileNoType == [name |-> <<"d",".","c","s","v">>, type |-> <<>>,
               text |-> <<"3",",","C">>, b64 |-> <<"M","y","x","D">>]
FileTxt == [name |-> <<"n",".","t","x","t">>, type |-> sTextPlain,
            text |-> <<"4",",","D">>, b64 |-> <<"N","C","x","E">>]
UploadFiles == Files \cup {FileXlsCsv, FileNoType, FileTxt}

\* the version of extractCorpsData that the variant calls
ServiceOf(v) == IF v = "P2" THEN 2 ELSE 1

\* the condition under which files.map returns a text part
isTextPart(svc, file) ==
  IF svc = 1
  THEN file.mimeType = sTextCsv \/ file.mimeType = sTextPlain
  ELSE startsWith(file.mimeType, sTextSlash) \/ endsWith(file.name, sDotCsv)

\* file.data.includes(',') ? file.data.split(',')[1] : file.data
base64Data(file) ==
  IF includes(file.data, <<",">>) THEN SplitOn(file.data, ",")[2]
  ELSE file.data

\* one element of parts; the text part is the file's data after a header
\* line, so only the data is kept here
Part(svc, file) ==
  IF isTextPart(svc, file)
  THEN [kind |-> "text", data |-> file.data, mimeType |-> <<>>]
  ELSE [kind |-> "inlineData", data |-> base64Data(file),
        mimeType |-> IF svc = 1 THEN file.mimeType
                     ELSE IF includes(file.mimeType, sPdf) THEN sAppPdf
                     ELSE IF file.mimeType # <<>> THEN file.mimeType
                     ELSE sImageJpeg]

NextUpload ==
  \/ \E fs \in SeqUpTo(UploadFiles, MaxUploads) :
       nSelected + Len(fs) <= MaxUploads /\ handleFileUpload(fs)
  \/ \E i \in 1..MaxUploads : readerOnload(i)
  \/ \E i \in 1..MaxUploads : removeFile(i)
  \/ clearQueue
  \/ \E m \in {"landing", "plain", "official"} : setMode(m)

SpecUpload == Init /\ [][NextUpload]_vars

\* C17: uploads are not queued or ordered.  A selection only creates
\* readers, after the pending ones; the staging list grows only when a
\* reader completes, by exactly the FileData of that reader's file, at the
\* end of the list, and that reader is then gone; so the staging order is
\* the completion order and no completed file is lost or added twice.
C17_StagedOnCompletion ==
  [][/\ reading' # reading =>
          \/ /\ Len(reading') > Len(reading)
             /\ SubSeq(reading', 1, Len(reading)) = reading
             /\ uploadedFiles' = uploadedFiles
          \/ \E i \in 1..Len(reading) :
               /\ reading' = RemoveAt(reading, i)
               /\ uploadedFiles' =
                    Append(uploadedFiles,
                           MakeFileData(variant, reading[i].file))
     /\ Len(uploadedFiles') > Len(uploadedFiles) =>
          /\ Len(uploadedFiles') = Len(uploadedFiles) + 1
          /\ Len(reading') = Len(reading) - 1
     /\ \A i, j \in 1..Len(reading') :
          i < j => reading'[i].seq < reading'[j].seq
     /\ Len(reading') + Len(uploadedFiles') <= nSelected']_vars

\* the file selected second is staged while the one selected first is
\* still being read, and a file of a later selection is being read too
C17_Witness ==
  /\ nSelected = 3
  /\ Len(reading) = 2
  /\ reading[1].seq = 1 /\ reading[1].file = FileCsv
  /\ reading[2].seq = 3
  /\ uploadedFiles = <<MakeFileData(variant, FilePng)>>

\* C18: FileData.data is base64 for images and PDF and raw text for CSV.
\* Whenever a reader completes, the file was read as raw text exactly when
\* extractCorpsData makes a text part of the FileData that was staged, and
\* an inlineData part carries the base64 payload of the file's data URL.
C18_DataMatchesPart ==
  [][\A i \in 1..Len(reading) :
       (reading' = RemoveAt(reading, i)
          /\ Len(uploadedFiles') = Len(uploadedFiles) + 1) =>
         LET file == reading[i].file
             part == Part(ServiceOf(variant), uploadedFiles'[Len(uploadedFiles')])
         IN /\ ReadsAsText(variant, file) <=> part.kind = "text"
            /\ part.kind = "inlineData" => part.data = file.b64]_vars

\* ------------------------------------------------------------------------
\* The statistics of App.tsx
\* ------------------------------------------------------------------------
sMale == <<"M","a","l","e">>
sFemale == <<"F","e","m","a","l","e">>

\* state.data.filter(m => m.gender === a || m.gender === b).length
CountGender(list, a, b) ==
  Cardinality({i \in 1..Len(list) :
                 "gender" \in list[i].has /\ list[i].gender \in {a, b}})

\* the stats memo of App.tsx; the percentages are left out and null is
\* the record whose field null is TRUE
stats ==
  IF Len(data) = 0 THEN [null |-> TRUE, total |-> 0, males |-> 0, females |-> 0]
  ELSE [null |-> FALSE, total |-> Len(data),
        males |-> CountGender(data, sM, sMale),
        females |-> CountGender(data, sF, sFemale)]

\* C19: in App.tsx every record of data has the gender flag 'M' or 'F' in
\* every reachable state, so males + females = total whenever stats is
\* not null.
C19_GenderFlag ==
  variant = "App" =>
    /\ \A i \in 1..Len(data) :
         "gender" \in data[i].has /\ data[i].gender \in {sM, sF}
    /\ ~stats.null => stats.males + stats.females = stats.total

\* after an extraction whose reply spelled a gender 'f' and left another
\* out, and a click on a gender button, both flags occur in the list
C19_Witness ==
  /\ variant = "App"
  /\ nEdits > 0
  /\ \E r \in 1..Len(runs) : runs[r].pc = "done"
  /\ ~stats.null
  /\ stats.males > 0 /\ stats.females > 0
  /\ stats.males + stats.females = Len(data)

\* C20: in every App variant a new extraction cannot be started while an
\* earlier call of extractCorpsData is unsettled: at most one run is in
\* flight at any moment, and a run that applies its result is the newest
\* run, so no older run overwrites the list after a newer one was started.
C20_OneExtraction ==
  [][/\ \A r, q \in 1..Len(runs') :
          (r < q /\ runs'[q].pc \notin {"done", "failed"}) =>
            runs'[r].pc \in {"done", "failed"}
     /\ \A r \in 1..Len(runs) : RunSucceeds(r) => r = Len(runs)]_vars

\* ------------------------------------------------------------------------
\* Cancellation and the processing flags
\* ------------------------------------------------------------------------
\* C21: in part_001 the outcome of an extraction that was cancelled is
\* discarded: when the call of the only run settles after 'Cancel
\* Extraction' was pressed (the run is in flight and isProcessing is false),
\* data, error and uploadedFiles stay as they are.
C21_CancelDiscards ==
  [][(/\ variant = "P1"
      /\ Len(runs) = 1 /\ RunInFlight(1) /\ ~isProcessing
      /\ runs'[1].pc \in {"done", "failed"}) =>
       /\ data' = data
       /\ error' = error
       /\ uploadedFiles' = uploadedFiles]_vars

\* C22: in App.tsx, part_000 (first App) and part_001, isProcessing is true
\* exactly when processingStep is not 'idle', in every reachable state.
C22_ProcessingIffStep ==
  variant \in {"App", "P0a", "P1"} =>
    (isProcessing <=> processingStep # "idle")

\* the changes of processingStep that App.tsx allows
StepOrder ==
  {<<"idle", "scanning">>, <<"scanning", "extracting">>,
   <<"extracting", "validating">>, <<"validating", "idle">>,
   <<"extracting", "idle">>}

NextBatch ==
  \/ \E fs \in SeqUpTo(Files, MaxUploads) :
       nSelected + Len(fs) <= MaxUploads /\ handleFileUpload(fs)
  \/ \E i \in 1..MaxUploads : readerOnload(i)
  \/ \E i \in 1..MaxUploads : removeFile(i)
  \/ clearQueue
  \/ processFiles
  \/ \E r \in 1..MaxRuns : scanningDone(r)
  \/ \E r \in 1..MaxRuns : settles(r)
  \/ \E r \in 1..MaxRuns : validatingDone(r)
  \/ cancelExtraction
  \/ \E m \in {"landing", "plain", "official"} : setMode(m)

SpecBatch == Init /\ [][NextBatch]_vars

\* C24: in part_000, part_001 and part_002, every file that the clearing
\* after a successful extraction removes from uploadedFiles was in the
\* batch passed to extractCorpsData by that run.
C24_ClearedWereSubmitted ==
  [][\A r \in 1..Len(runs) :
       (variant \in {"P0a", "P1", "P2"} /\ RunSucceeds(r)) =>
         \A i \in 1..Len(uploadedFiles) :
           \E j \in 1..Len(runs[r].files) :
             runs[r].files[j] = uploadedFiles[i]]_vars

\* ------------------------------------------------------------------------
\* The selected group of App.tsx
\* ------------------------------------------------------------------------
\* C25: in App.tsx a selectedGroup that is not null is the key of an
\* existing, non-empty group of the current data, in every reachable state.
C25_SelectedGroupExists ==
  (variant = "App" /\ selectedGroup # Null) =>
    \E i \in 1..Len(groups) :
      groups[i].key = selectedGroup /\ groups[i].members # <<>>

\* ------------------------------------------------------------------------
\* The views of part_000 (first App) and part_001
\* ------------------------------------------------------------------------
MaxReport == 3

\* the three view buttons of the header, shown while there are records
setViewMode(vm) ==
  /\ variant \in {"P0a", "P1"}
  /\ data # <<>>
  /\ vm # viewMode
  /\ viewMode' = vm
  /\ UNCHANGED <<variant, stateVars, fileVars, viewVars, editVars, runs,
                 nEdits, xcall, docVars>>
  /\ renderSorts(FALSE)

\* entries.sort((a, b) => b[1].length - a[1].length)
sortBySize(es) == sortByKey(es, [i \in 1..Len(es) |-> 0 - Len(es[i].members)])

\* the array that the report view and the print report map over: the
\* memoized list, in the order the last in-place sort left it in
reportGroups ==
  LET memo == IF variant = "P0a" THEN sortedPPAs ELSE filteredSortedPPAs
  IN IF sizeSorted THEN sortBySize(memo) ELSE memo

\* a third record, of the same PPA as ExpBo
ExpCy == Member1(Fields1, <<"i","3">>, 3, <<"K","T">>, <<"C","Y">>, sM,
                 <<>>, <<"X","\"","Y">>)
ReportMembers == {ExpAnn, ExpBo, ExpCy}

\* the views on their own: any list that an extraction can have left (in
\* ascending order of sn), then view changes, searches and clearing
InitReport ==
  /\ variant \in {"P0a", "P1"}
  /\ data \in {l \in SeqUpTo(ReportMembers, MaxReport) :
                 \A i, j \in 1..Len(l) : i < j => SnKey(l[i]) <= SnKey(l[j])}
  /\ isProcessing = FALSE
  /\ processingStep = "idle"
  /\ metadata = NoMetadata
  /\ error = Null
  /\ selectedGroup = Null
  /\ uploadedFiles = <<>>
  /\ reading = <<>>
  /\ searchTerm = <<>>
  /\ ppaSearch = <<>>
  /\ editableData = <<>>
  /\ editableMetadata = metadata
  /\ runs = <<>>
  /\ nSelected = 0
  /\ nEdits = 0
  /\ xcall = NoCall
  /\ mode = "none"
  /\ showGSM = TRUE
  /\ showPPA = TRUE
  /\ doc = NoDoc
  /\ viewMode = "table"
  /\ sizeSorted = FALSE

NextReport ==
  \/ \E vm \in {"table", "report", "analytics"} : setViewMode(vm)
  \/ \E t \in SearchTerms : setSearchTerm(t)
  \/ clearData

SpecReport == InitReport /\ [][NextReport]_vars

\* C26: in part_000 (first App) and part_001 the report view lists the
\* groups in ascending alphabetical order of PPA name in every reachable
\* state, whichever views were displayed before.
C26_ReportAlphabetical ==
  (variant \in {"P0a", "P1"} /\ viewMode = "report") =>
    \A i, j \in 1..Len(reportGroups) :
      i < j => ~localeLess(reportGroups[j].key, reportGroups[i].key)

\* ------------------------------------------------------------------------
\* The working copy of part_002
\* ------------------------------------------------------------------------
\* C27: in part_002 the working copy (editableData, editableMetadata) is
\* changed only by the edit handlers and by a successful extraction, which
\* replaces it with the extracted members and the merged metadata; a failed
\* extraction leaves it unchanged.
C27_WorkingCopyFrame ==
  [][variant = "P2" =>
       /\ (editableData' # editableData
              \/ editableMetadata' # editableMetadata) =>
            \/ nEdits' = nEdits + 1 /\ runs' = runs
            \/ \E r \in 1..Len(runs) : RunSucceeds(r)
       /\ \A r \in 1..Len(runs) :
            /\ RunSucceeds(r) =>
                 /\ editableData' = runs'[r].result.members
                 /\ editableMetadata' =
                      MergeMetadata(metadata, runs'[r].result.metadata)
            /\ RunFails(r) =>
                 /\ editableData' = editableData
                 /\ editableMetadata' = editableMetadata]_vars

\* part_002 after an edit of the working copy and an extraction that
\* failed: the working copy still holds the edit
C27_Witness ==
  /\ variant = "P2"
  /\ nEdits > 0
  /\ \E q \in 1..Len(runs) : runs[q].pc = "failed"
  /\ ~isProcessing
  /\ editableData # data \/ editableMetadata # metadata


====
